---- MODULE Spec2Model ----
(***************************************************************************)
(* Model of the retrieval-augmented query pipeline of CustomEnvisionAgent  *)
(* (src/custom_agent.py): the lazily built service clients, the retry      *)
(* wrappers around retrieve and converse, the memory adapter and the       *)
(* prompt assembly of query_with_rag and query.  Further specifications    *)
(* cover the memory adapter on its own (MemorySpec), the cached client     *)
(* handles (ClientSpec), the sessions of src/api.py (ApiSpec), the event   *)
(* stream of src/agent.py (StreamSpec), the Lambda proxy of                *)
(* src/lambda/agentcore_proxy.py (ProxySpec) and the runtime services of   *)
(* src/agentcore_runtime_service.py and src/runtime_agent_main.py          *)
(* (RuntimeSpec).  Each specification moves its own variables and leaves   *)
(* the others at their initial values.                                     *)
(*                                                                         *)
(* Text is modelled as a sequence of atoms (string pieces); f-strings and  *)
(* str.join become concatenation of such sequences.                        *)
(*                                                                         *)
(* src/custom_agent.py has its except clauses at lines 225-246, 279-300    *)
(* and the block at 490-512 dedented; the model reads each except clause   *)
(* as belonging to the try of the retry loop (their `continue` statements  *)
(* admit no other reading) and lines 490-512 as part of the try block of   *)
(* query_with_rag.                                                         *)
(***************************************************************************)
EXTENDS Integers, Sequences, FiniteSets, TLC

\* ------------------------------------------------------------------ bounds
\* Number of query / query_with_rag calls made on one agent instance.
MaxQueries == 1
\* Number of turns stored in one session (MemorySpec).
MaxTurns == 6
\* Number of clear_memory calls (MemorySpec).
MaxClears == 1
\* Accesses to one client property between two refreshes (ClientSpec).
MaxAccesses == 3
\* Clients constructed over the life of one agent (ClientSpec).
MaxHandles == 4
\* Requests received by src/api.py (ApiSpec).
MaxRequests == 5
\* Query requests of src/api.py waiting for their tool calls at one time.
MaxInFlight == 2
\* Requests received by a runtime service (RuntimeSpec).
MaxServed == 4
\* add_to_history calls made on one agent (ClientSpec).
MaxAdds == 2

\* --------------------------------------------------------- program constants
\* max_retries default of _retrieve_with_retry and _converse_with_retry.
max_retries == 2
\* k default of _load_conversation_history (get_memory_content passes k=5).
default_k == 5
\* The most messages the tests allow conversation_history to hold.
history_limit == 20

\* ------------------------------------------------------------- input domains
Queries == {"q1", "q2"}

\* Error codes carried by botocore ClientError responses.
CredentialErrorCodes ==
    {"ExpiredTokenException", "InvalidTokenException", "TokenRefreshRequired"}
OtherClientErrorCodes == {"ThrottlingException"}
\* Exceptions that are not ClientError (connection failures, timeouts ...).
OtherExceptions == {"EndpointConnectionError"}
\* 'NoneType' object has no attribute 'set_attribute'
AttributeError == "AttributeError"

ContextItem(t) == [hasText |-> TRUE, text |-> t]
NoTextItem == [hasText |-> FALSE, text |-> ""]
\* A turn stored by an earlier run of the same session; the memory backend
\* outlives the agent instance.
PriorTurn ==
    << [role |-> "user", text |-> <<"q0">>], [role |-> "assistant", text |-> <<"r0">>] >>
PriorEvents == { << >>, <<PriorTurn>> }
PriorContents ==
    { << >>,
      << [content |-> <<"User: ", "q0">>], [content |-> <<"Assistant: ", "r0">>] >> }

\* Shapes of the knowledge base's retrieve response.
RetrieveResponses ==
    { [hasResults |-> FALSE, results |-> << >>],
      [hasResults |-> TRUE,  results |-> << >>],
      [hasResults |-> TRUE,  results |-> <<ContextItem("A")>>],
      [hasResults |-> TRUE,  results |-> <<ContextItem("B"), NoTextItem, ContextItem("A")>>] }

\* Shapes of the model's converse response.
ConverseResponses ==
    { [hasOutputMessage |-> TRUE,  content |-> <<ContextItem("r1")>>],
      [hasOutputMessage |-> TRUE,  content |-> << >>],
      [hasOutputMessage |-> FALSE, content |-> << >>] }

\* ------------------------------------------------------------- text helpers
RECURSIVE Join(_, _)
\* sep.join(parts) for a sequence of texts.
Join(parts, sep) ==
    IF parts = << >> THEN << >>
    ELSE IF Len(parts) = 1 THEN parts[1]
    ELSE parts[1] \o sep \o Join(Tail(parts), sep)

RECURSIVE Flatten(_)
Flatten(ss) == IF ss = << >> THEN << >> ELSE ss[1] \o Flatten(Tail(ss))

\* seq[-1]
Last(log) == log[Len(log)]

\* seq[-n:]
LastN(seq, n) ==
    IF Len(seq) <= n THEN seq ELSE SubSeq(seq, Len(seq) - n + 1, Len(seq))

Contains(text, atom) == \E i \in 1..Len(text) : text[i] = atom

\* str.title() on the role names the memory backend stores.
Title(role) ==
    CASE role = "user" -> "User"
      [] role = "assistant" -> "Assistant"
      [] role = "system" -> "System"
      [] OTHER -> role

NL == "\n"
Separator == "\n\n---\n\n"
PreviousLabel == "Previous conversation context:\n"
NoInfoHead == "The user asked: \""
NoInfoTail == "\". No information was found in the knowledge base. Follow your instructions for how to respond when no relevant information is available."
ContextHead == "Use the following knowledge base context to answer the user's query.\n\nContext:\n"
UserQueryLabel == "\n\nUser Query: \""
ContextTail == "\"\n\nRemember to follow your rules strictly: if the context is not relevant, you must decline to answer."
CurrentQueryLabel == "\n\nCurrent query: "
RagApology == "Sorry, an error occurred while processing your request: "
Apology == "Sorry, an error occurred: "
NoResponseText == "I apologize, but I couldn't generate a response."

None == "None"

\* ------------------------------------------------- pure parts of the pipeline
\* contexts list built from the retrieve response (query_with_rag).
ExtractContexts(retrieve_response) ==
    IF retrieve_response.hasResults
    THEN LET texts == SelectSeq(retrieve_response.results, LAMBDA r : r.hasText)
         IN  [i \in 1..Len(texts) |-> <<texts[i].text>>]
    ELSE << >>

\* "Role: content" lines of the turns returned by get_last_k_turns, joined by \n.
FormatTurns(recent_turns) ==
    LET messages == Flatten(recent_turns)
        lines == [i \in 1..Len(messages) |->
                     <<Title(messages[i].role), ": ">> \o messages[i].text]
    IN  Join(lines, <<NL>>)

\* "\n".join(contents[-k:]) over the memoryContents of get_memory.
FormatContents(memory_contents, kk) ==
    LET contents == [i \in 1..Len(memory_contents) |-> memory_contents[i].content]
    IN  IF contents = << >> THEN << >> ELSE Join(LastN(contents, kk), <<NL>>)

\* Mutant of BuildRagPrompt: the contexts are joined by a newline.
BuildRagPromptNewlineJoin(q, ctxs, mem_ctx) ==
    LET history_part ==
            IF mem_ctx # << >> THEN << <<PreviousLabel>> \o mem_ctx \o <<NL>> >> ELSE << >>
        answer_part ==
            IF ctxs = << >>
            THEN <<NoInfoHead>> \o q \o <<NoInfoTail>>
            ELSE <<ContextHead>> \o Join(ctxs, <<NL>>)
                    \o <<UserQueryLabel>> \o q \o <<ContextTail>>
    IN  Join(history_part \o <<answer_part>>, <<NL>>)

\* final_prompt of query_with_rag.
BuildRagPrompt(q, ctxs, mem_ctx) ==
    LET history_part ==
            IF mem_ctx # << >> THEN << <<PreviousLabel>> \o mem_ctx \o <<NL>> >> ELSE << >>
        answer_part ==
            IF ctxs = << >>
            THEN <<NoInfoHead>> \o q \o <<NoInfoTail>>
            ELSE <<ContextHead>> \o Join(ctxs, <<Separator>>)
                    \o <<UserQueryLabel>> \o q \o <<ContextTail>>
    IN  Join(history_part \o <<answer_part>>, <<NL>>)

\* Mutant of BuildDirectPrompt: the history block is left out.
BuildDirectPromptNoHistory(prompt, mem_ctx) == prompt

\* full_prompt of query.
BuildDirectPrompt(prompt, mem_ctx) ==
    IF mem_ctx # << >>
    THEN <<PreviousLabel>> \o mem_ctx \o <<CurrentQueryLabel>> \o prompt
    ELSE prompt

\* Text extracted from the converse response by query_without_memory.
ExtractResponseText(converse_response) ==
    IF /\ converse_response.hasOutputMessage
       /\ converse_response.content # << >>
       /\ converse_response.content[1].hasText
    THEN <<converse_response.content[1].text>>
    ELSE <<NoResponseText>>

IsCredentialError(code) == code \in CredentialErrorCodes

\* Mutant of MayRetry: the loop bound off by one.
MayRetryOffByOne(n) == n <= max_retries

\* `if attempt < max_retries` of the retry loops.
MayRetry(n) == n < max_retries

\* Mutant of RetrieveDecision: every failed attempt is retried alike.
RetrieveDecisionRetryAll(outcome, n) ==
    IF outcome.kind = "ok" THEN "return"
    ELSE IF MayRetry(n) THEN "retry" ELSE "raise"

\* What one iteration of the loop of _retrieve_with_retry does with the outcome
\* of its attempt: "return", "refresh_retry", "retry" or "raise".
RetrieveDecision(outcome, n) ==
    CASE outcome.kind = "ok" -> "return"
      [] outcome.kind = "ClientError" ->
            IF IsCredentialError(outcome.code)
            THEN IF MayRetry(n) THEN "refresh_retry" ELSE "raise"
            ELSE "raise"
      [] OTHER -> IF MayRetry(n) THEN "retry" ELSE "raise"

\* Mutant of ConverseDecision: every failed attempt that is retried refreshes
\* the clients first.
ConverseDecisionRefreshAll(outcome, n) ==
    IF outcome.kind = "ok" THEN "return"
    ELSE IF MayRetry(n) THEN "refresh_retry" ELSE "raise"

\* The same for the loop of _converse_with_retry.
ConverseDecision(outcome, n) ==
    CASE outcome.kind = "ok" -> "return"
      [] outcome.kind = "ClientError" ->
            IF IsCredentialError(outcome.code)
            THEN IF MayRetry(n) THEN "refresh_retry" ELSE "raise"
            ELSE "raise"
      [] OTHER -> IF MayRetry(n) THEN "retry" ELSE "raise"

\* Outcomes of one attempt.  "ClientInitError" is the lazy client property
\* raising while it builds the client: the remote operation is not invoked.
ErrorOutcomes ==
    [kind : {"ClientError"}, code : CredentialErrorCodes \cup OtherClientErrorCodes]
        \cup [kind : {"Exception"}, code : OtherExceptions]
InitErrorOutcome == [kind |-> "ClientInitError", code |-> "ClientInitError"]
OkOutcome == [kind |-> "ok", code |-> "ok"]

\* A remote operation issued by a call, and whether it succeeded.
Step(op, ok) == [op |-> op, ok |-> ok]

\* ---------------------------------------------------------------------- state
VARIABLES
    observability,          \* OBSERVABILITY_AVAILABLE (module level)
    knowledge_base_id,      \* self.knowledge_base_id
    memory_id,              \* self.memory_id
    memory_client,          \* self.memory_client
    bedrock_agentcore,      \* self._bedrock_agentcore
    bedrock_runtime,        \* self._bedrock_runtime
    bedrock_agent_runtime,  \* self._bedrock_agent_runtime
    events,                 \* memory backend: events created through MemoryClient
    memoryContents,         \* memory backend: contents written through the boto3 client
    pc,                     \* position of the query in progress
    entry,                  \* the method the caller invoked
    query,                  \* its query argument
    attempt,                \* loop variable of the retry loop in progress
    contexts,               \* contexts of query_with_rag
    memory_context,         \* memory_context of query_with_rag / query
    final_prompt,           \* prompt handed to query_without_memory
    response,               \* response of query_without_memory
    result,                 \* what the call gave its caller
    steps,                  \* remote operations issued by the call, in order
    retrieveLog,            \* outcomes of the attempts of _retrieve_with_retry
    converseLog,            \* outcomes of the attempts of _converse_with_retry
    fallback_at_entry,      \* self._bedrock_agentcore as it was when the call began
    refreshes,              \* refresh_clients() calls the call in progress made
    nQueries,               \* calls made so far
    \* memory adapter on its own
    load_k,                 \* k of the last _load_conversation_history call
    turnsStored,            \* turns the backend accepted, oldest first
    clearsDone,             \* clear_memory calls that ended without a failed write
    lastOp,                 \* last memory operation and whether its backend call succeeded
    \* cached client handles
    handles_built,          \* clients constructed so far (each gets the next number)
    built,                  \* per service: clients constructed since the last refresh
    yielded,                \* per service: handles the property returned since then
    retired,                \* handles dropped by refresh_clients
    conversation_history,   \* the agent's conversation_history attribute
    history_adds,           \* add_to_history calls made on the agent, in order
    history_error,          \* the exception the last of them raised
    \* src/api.py
    STRANDS_KNOWLEDGE_BASE_ID,  \* module constant read from the environment
    agent_sessions,         \* session id -> session data (user_id, chat_history)
    in_flight,              \* query requests waiting for their tool calls, oldest first
    sessions_created,       \* session ids handed out so far
    requests_begun,         \* requests received so far
    last_response,          \* what the last finished request answered
    last_request,           \* who sent the last request received, and for which session
    overtaken,              \* sessions on which a request appended before an older one
    completed,              \* per session: exchanges of the requests that got to their
                            \* append, in the order they got there
    \* src/agent.py
    inv_pc,                 \* position of the /invocations request and of its stream
    inv_query,              \* request.query
    inv_prompt,             \* final_prompt_for_llm
    stream_events,          \* events the response stream has yielded
    llm_invocations,        \* use_agent calls submitted for the request
    kb_outcome,             \* how the knowledge-base retrieval ended
    llm_outcome,            \* how the model call ended
    \* src/lambda/agentcore_proxy.py
    proxy_observability,    \* OBSERVABILITY_AVAILABLE of the Lambda module
    proxy_event,            \* the event of the last lambda_handler call
    proxy_response,         \* what that call returned, or that it raised
    agent_invocations,      \* invoke_agent_runtime calls made by that call
    invoke_outcome,         \* how invoke_agent_runtime ended in that call
    processed_reply,        \* argument of the last direct process_agentcore_response call
    processed,              \* what that call gave its caller
    \* the runtime services, src/runtime_agent_main.py and src/agentcore_runtime_service.py
    rt_service,             \* which of the two modules is running
    rt_has_memory,          \* bool(MEMORY_ID) / bool(self.memory_id)
    rt_agent,               \* the agent instance (by its session_id), None before it is built
    rt_agents_built,        \* CustomEnvisionAgent instances constructed so far
    rt_memory,              \* turns in the memory backend, each under its address
    rt_inflight,            \* the /invocations request being processed
    rt_loaded,              \* history loaded for the last /invocations request
    rt_last,                \* route and status of the answer to the last request received
    rt_served               \* requests received so far

agentVars == <<observability, knowledge_base_id, memory_id, memory_client,
               bedrock_agentcore, bedrock_runtime, bedrock_agent_runtime>>
storeVars == <<events, memoryContents>>
callVars == <<pc, entry, query, attempt, contexts, memory_context, final_prompt,
              response, result, steps, retrieveLog, converseLog, fallback_at_entry,
              refreshes, nQueries>>
coreVars == <<agentVars, storeVars, callVars>>
memoryVars == <<load_k, turnsStored, clearsDone, lastOp>>
attrVars == <<conversation_history, history_adds, history_error>>
handleVars == <<handles_built, built, yielded, retired, attrVars>>
\* Variables the query pipeline leaves alone.
apiVars == <<STRANDS_KNOWLEDGE_BASE_ID, agent_sessions, in_flight,
             sessions_created, requests_begun, last_response, last_request,
             overtaken, completed>>
streamVars == <<inv_pc, inv_query, inv_prompt, stream_events, llm_invocations,
                kb_outcome, llm_outcome>>
proxyVars == <<proxy_observability, proxy_event, proxy_response,
               agent_invocations, invoke_outcome, processed_reply, processed>>
\* The HTTP services around the agent.
runtimeVars == <<rt_service, rt_has_memory, rt_agent, rt_agents_built, rt_memory,
                 rt_inflight, rt_loaded, rt_last, rt_served>>
serviceVars == <<apiVars, streamVars, proxyVars, runtimeVars>>
extVars == <<memoryVars, handleVars, serviceVars>>
\* Everything but the variables of src/api.py.
nonApiVars == <<coreVars, memoryVars, handleVars, streamVars, proxyVars, runtimeVars>>
\* Everything but the variables of src/agent.py.
nonStreamVars == <<coreVars, memoryVars, handleVars, apiVars, proxyVars, runtimeVars>>
\* Everything but the variables of src/lambda/agentcore_proxy.py.
nonProxyVars == <<coreVars, memoryVars, handleVars, apiVars, streamVars, runtimeVars>>
\* Everything but the variables of the runtime services.
nonRuntimeVars == <<coreVars, memoryVars, handleVars, apiVars, streamVars, proxyVars>>
vars == <<coreVars, extVars>>

NoResult == [kind |-> "none", text |-> << >>]

Services == {"bedrock-runtime", "bedrock-agent-runtime"}
NoOp == [op |-> "none", ok |-> TRUE]

\* No memory operation made outside a query yet.
MemoryInit ==
    /\ load_k = 0
    /\ turnsStored = << >>
    /\ clearsDone = 0
    /\ lastOp = NoOp

\* An attribute the instance does not have.
NoAttribute == [defined |-> FALSE, messages |-> << >>]

\* CustomEnvisionAgent.__init__ sets no conversation_history.
AttrInit ==
    /\ conversation_history = NoAttribute
    /\ history_adds = << >>
    /\ history_error = None

\* No client handle accessed yet.
HandleInit ==
    /\ handles_built = 0
    /\ built = [s \in Services |-> 0]
    /\ yielded = [s \in Services |-> << >>]
    /\ retired = {}
    /\ AttrInit

NoResponse == [route |-> "none", outcome |-> "none"]
NoRequest == [route |-> "none", user |-> None, session_id |-> None]

\* src/api.py just imported: no session, no request.
ApiInit ==
    /\ STRANDS_KNOWLEDGE_BASE_ID = None
    /\ agent_sessions = [sid \in {} |-> None]
    /\ in_flight = << >>
    /\ sessions_created = 0
    /\ requests_begun = 0
    /\ last_response = NoResponse
    /\ last_request = NoRequest
    /\ overtaken = {}
    /\ completed = [sid \in {} |-> << >>]

\* src/agent.py just imported: no request.
StreamInit ==
    /\ inv_pc = "idle"
    /\ inv_query = << >>
    /\ inv_prompt = << >>
    /\ stream_events = << >>
    /\ llm_invocations = 0
    /\ kb_outcome = "none"
    /\ llm_outcome = "none"

NoEvent == [httpMethod |-> "none", encoding |-> "none", form |-> "none",
            prompt |-> None, sessionId |-> None]
NotCalled == [kind |-> "none", statusCode |-> 0, headers |-> [h \in {} |-> None],
              body |-> << >>, sessionId |-> None]

NotProcessed == [kind |-> "none", text |-> << >>]

\* The Lambda module just imported: no call.
ProxyIdle ==
    /\ proxy_event = NoEvent
    /\ proxy_response = NotCalled
    /\ processed_reply = None
    /\ processed = NotProcessed
    /\ agent_invocations = 0
    /\ invoke_outcome = "none"

ProxyInit == proxy_observability = TRUE /\ ProxyIdle

NothingLoaded == [session |-> None, turns |-> << >>]
NoAnswer == [route |-> "none", status |-> 0]
NoInvocation == [session |-> None, prompt |-> None]

\* No request served; which module runs, and the agent it starts with, are
\* left to the specification.
RuntimeIdle ==
    /\ rt_memory = << >>
    /\ rt_inflight = NoInvocation
    /\ rt_loaded = NothingLoaded
    /\ rt_last = NoAnswer
    /\ rt_served = 0

\* src/runtime_agent_main.py after start_http_server: the runtime has no agent yet.
RuntimeInit ==
    /\ rt_service = "runtime_agent_main"
    /\ rt_has_memory = FALSE
    /\ rt_agent = None
    /\ rt_agents_built = 0
    /\ RuntimeIdle

ServiceInit == ApiInit /\ StreamInit /\ ProxyInit /\ RuntimeInit

ExtInit == MemoryInit /\ HandleInit /\ ServiceInit

\* The memory clients after CustomEnvisionAgent.__init__: the primary
\* MemoryClient when the package imports and constructs, else the boto3 fallback
\* (which may itself fail to initialise); no memory client without a memory id.
\* The service clients are built lazily.
AgentInit ==
    /\ memory_id \in {None, "mem"}
    /\ \E primary_ok, fallback_ok \in BOOLEAN :
          /\ memory_client = IF memory_id # None /\ primary_ok THEN "MemoryClient" ELSE None
          /\ bedrock_agentcore =
                IF memory_id # None /\ ~primary_ok /\ fallback_ok THEN "client" ELSE None
    /\ bedrock_runtime = None
    /\ bedrock_agent_runtime = None

\* No call in progress.
CallInit ==
    /\ pc = "idle"
    /\ entry = None
    /\ query = << >>
    /\ attempt = 0
    /\ contexts = << >>
    /\ memory_context = << >>
    /\ final_prompt = << >>
    /\ response = << >>
    /\ result = NoResult
    /\ steps = << >>
    /\ retrieveLog = << >>
    /\ converseLog = << >>
    /\ fallback_at_entry = None
    /\ refreshes = 0
    /\ nQueries = 0

\* State after CustomEnvisionAgent.__init__.  The backend may hold turns of the
\* session already.
Init ==
    /\ observability \in BOOLEAN
    /\ knowledge_base_id \in {None, "kb"}
    /\ AgentInit
    /\ events \in IF memory_client # None THEN PriorEvents ELSE { << >> }
    /\ memoryContents \in IF bedrock_agentcore # None THEN PriorContents ELSE { << >> }
    /\ CallInit
    /\ ExtInit

\* Entry in the attempt logs for an outcome.
LogKind(outcome) ==
    CASE outcome.kind = "ok" -> "ok"
      [] outcome.kind = "ClientError" ->
            IF IsCredentialError(outcome.code) THEN "credential" ELSE "client_other"
      [] outcome.kind = "Exception" -> "exception"
      [] OTHER -> "init_error"

\* Number of times the remote operation was invoked, from an attempt log.
Invocations(log) == Len(SelectSeq(log, LAMBDA e : e # "init_error"))

\* Mutant of RefreshClients: the fallback memory client is built whether or not
\* the agent had one.
RefreshClientsAlwaysFallback(rebuild_ok) ==
    /\ bedrock_runtime' = None
    /\ bedrock_agent_runtime' = None
    /\ bedrock_agentcore' = IF rebuild_ok THEN "client" ELSE None

\* refresh_clients: both cached clients dropped; a fallback memory client is
\* rebuilt by _init_boto3_fallback, which leaves None when the build fails.
RefreshClients(rebuild_ok) ==
    /\ bedrock_runtime' = None
    /\ bedrock_agent_runtime' = None
    /\ bedrock_agentcore' =
          IF bedrock_agentcore # None /\ rebuild_ok THEN "client" ELSE None

\* Mutant of LoadRaises: a failed backend read escapes.
LoadRaisesOnFailure(backend_failed) == backend_failed

\* Whether _load_conversation_history raises when a backend read it issued
\* failed: each read sits in its own try whose except clause logs, and the outer
\* except clause returns "".
LoadRaises(backend_failed) == FALSE

\* _load_conversation_history(k): the text it returns, whether it raises, and the
\* backend operations it issues.  primary_ok / fallback_ok: whether the backend
\* call, if made, succeeds.
LoadConversationHistory(kk, primary_ok, fallback_ok) ==
    IF memory_id = None
    THEN [raised |-> FALSE, text |-> << >>, issued |-> << >>]
    ELSE IF memory_client # None /\ primary_ok
    THEN [raised |-> FALSE,
          text |-> IF LastN(events, kk) # << >>
                   THEN FormatTurns(LastN(events, kk)) ELSE << >>,
          issued |-> <<Step("get_last_k_turns", TRUE)>>]
    ELSE LET first == IF memory_client # None
                      THEN <<Step("get_last_k_turns", FALSE)>> ELSE << >>
         IN  IF bedrock_agentcore # None
             THEN [raised |-> LoadRaises(first # << >> \/ ~fallback_ok),
                   text |-> IF fallback_ok
                            THEN FormatContents(memoryContents, kk) ELSE << >>,
                   issued |-> first \o <<Step("get_memory", fallback_ok)>>]
             ELSE [raised |-> LoadRaises(first # << >>),
                   text |-> << >>, issued |-> first]

\* Mutant of StoreRaises: a failed backend write escapes.
StoreRaisesOnFailure(backend_failed) == backend_failed

\* Whether _store_conversation_turn raises when a backend write it issued
\* failed: the except clauses log the error and the method returns.
StoreRaises(backend_failed) == FALSE

\* _store_conversation_turn(user_message, assistant_message): the backend
\* operations it issues, the new backend contents, and whether it raises.
StoreConversationTurn(user_message, assistant_message, primary_ok, fallback_ok) ==
    LET unchanged == [raised |-> FALSE, issued |-> << >>,
                      events |-> events, memoryContents |-> memoryContents]
    IN
    IF memory_id = None
    THEN unchanged
    ELSE IF memory_client # None /\ primary_ok
    THEN [unchanged EXCEPT
            !.issued = <<Step("create_event", TRUE)>>,
            !.events = Append(events, << [role |-> "user", text |-> user_message],
                                         [role |-> "assistant", text |-> assistant_message] >>)]
    ELSE LET first == IF memory_client # None
                      THEN <<Step("create_event", FALSE)>> ELSE << >>
         IN  IF bedrock_agentcore # None
             THEN [unchanged EXCEPT
                     !.raised = StoreRaises(first # << >> \/ ~fallback_ok),
                     !.issued = first \o <<Step("update_memory", fallback_ok)>>,
                     !.memoryContents =
                         IF fallback_ok
                         THEN memoryContents \o
                                << [content |-> <<"User: ">> \o user_message],
                                   [content |-> <<"Assistant: ">> \o assistant_message] >>
                         ELSE memoryContents]
             ELSE [unchanged EXCEPT !.raised = StoreRaises(first # << >>),
                                    !.issued = first]

\* Outcomes one attempt can have when the cached client is `cached`: building a
\* missing client may fail; otherwise the remote operation is invoked.
AttemptOutcomes(cached) ==
    {OkOutcome} \cup ErrorOutcomes \cup (IF cached = None THEN {InitErrorOutcome} ELSE {})

\* ---------------------------------------------------------------- operations
\* query_with_rag(query) up to its first await: the span attributes are set on
\* the object `with tracer.start_as_current_span(...)` yields, which is None
\* under NoOpTracer; without a knowledge base it hands over to query().
QueryWithRag(q) ==
    /\ pc = "idle"
    /\ nQueries < MaxQueries
    /\ nQueries' = nQueries + 1
    /\ entry' = "query_with_rag"
    /\ query' = <<q>>
    /\ IF ~observability
       THEN /\ pc' = "raised"
            /\ result' = [kind |-> "exception", text |-> <<AttributeError>>]
       ELSE /\ pc' = IF knowledge_base_id = None THEN "query_history" ELSE "retrieve"
            /\ result' = NoResult
    /\ fallback_at_entry' = bedrock_agentcore
    /\ UNCHANGED <<agentVars, storeVars, attempt, contexts, memory_context,
                   final_prompt, response, steps, retrieveLog, converseLog,
                   refreshes>>
    /\ UNCHANGED extVars

\* query(prompt) called directly.
Query(q) ==
    /\ pc = "idle"
    /\ nQueries < MaxQueries
    /\ nQueries' = nQueries + 1
    /\ entry' = "query"
    /\ query' = <<q>>
    /\ pc' = "query_history"
    /\ fallback_at_entry' = bedrock_agentcore
    /\ UNCHANGED <<agentVars, storeVars, attempt, contexts, memory_context,
                   final_prompt, response, result, steps, retrieveLog, converseLog,
                   refreshes>>
    /\ UNCHANGED extVars

\* One iteration of the loop of _retrieve_with_retry, and what query_with_rag
\* does with its result: contexts on success, the apology when it raises.
Retrieve ==
    /\ pc = "retrieve"
    /\ \E outcome \in AttemptOutcomes(bedrock_agent_runtime),
          retrieve_response \in RetrieveResponses, rebuild_ok \in BOOLEAN :
          LET decision == RetrieveDecision(outcome, attempt)
              invoked == outcome.kind # "ClientInitError"
          IN
          /\ retrieveLog' = Append(retrieveLog, LogKind(outcome))
          /\ steps' = IF invoked
                       THEN Append(steps, Step("retrieve", outcome.kind = "ok"))
                       ELSE steps
          /\ IF decision = "refresh_retry"
             THEN /\ RefreshClients(rebuild_ok)
                  /\ refreshes' = refreshes + 1
             ELSE /\ bedrock_agent_runtime' = IF invoked THEN "client" ELSE None
                  /\ UNCHANGED <<bedrock_runtime, bedrock_agentcore, refreshes>>
          /\ CASE decision = "return" ->
                    /\ contexts' = ExtractContexts(retrieve_response)
                    /\ pc' = "rag_history"
                    /\ attempt' = 0
                    /\ UNCHANGED result
               [] decision \in {"refresh_retry", "retry"} ->
                    /\ attempt' = attempt + 1
                    /\ UNCHANGED <<contexts, pc, result>>
               [] OTHER ->
                    /\ result' = [kind |-> "string", text |-> <<RagApology, outcome.code>>]
                    /\ pc' = "returned"
                    /\ UNCHANGED <<contexts, attempt>>
    /\ UNCHANGED <<observability, knowledge_base_id, memory_id, memory_client,
                   storeVars, entry, query, memory_context, final_prompt, response,
                   converseLog, fallback_at_entry, nQueries>>
    /\ UNCHANGED extVars

\* get_memory_content() in query_with_rag, followed by the prompt assembly.
RagHistory ==
    /\ pc = "rag_history"
    /\ \E primary_ok, fallback_ok \in BOOLEAN :
          LET loaded == LoadConversationHistory(default_k, primary_ok, fallback_ok)
          IN  /\ steps' = steps \o loaded.issued
              /\ IF loaded.raised
                 THEN /\ result' = [kind |-> "string", text |-> <<RagApology, "HistoryError">>]
                      /\ pc' = "returned"
                      /\ UNCHANGED <<memory_context, final_prompt>>
                 ELSE /\ memory_context' = loaded.text
                      /\ final_prompt' = BuildRagPrompt(query, contexts, loaded.text)
                      /\ pc' = "converse"
                      /\ UNCHANGED result
    /\ UNCHANGED <<agentVars, storeVars, entry, query, attempt, contexts, response,
                   retrieveLog, converseLog, fallback_at_entry, refreshes,
                   nQueries>>
    /\ UNCHANGED extVars

\* get_memory_content() in query, followed by its prompt assembly.
QueryHistory ==
    /\ pc = "query_history"
    /\ \E primary_ok, fallback_ok \in BOOLEAN :
          LET loaded == LoadConversationHistory(default_k, primary_ok, fallback_ok)
          IN  /\ steps' = steps \o loaded.issued
              /\ IF loaded.raised
                 THEN /\ result' = [kind |-> "string", text |-> <<Apology, "HistoryError">>]
                      /\ pc' = "returned"
                      /\ UNCHANGED <<memory_context, final_prompt>>
                 ELSE /\ memory_context' = loaded.text
                      /\ final_prompt' = BuildDirectPrompt(query, loaded.text)
                      /\ pc' = "converse"
                      /\ UNCHANGED result
    /\ UNCHANGED <<agentVars, storeVars, entry, query, attempt, contexts, response,
                   retrieveLog, converseLog, fallback_at_entry, refreshes,
                   nQueries>>
    /\ UNCHANGED extVars

\* Whether the call in progress runs the body of query_with_rag (and not query).
InRagPipeline == entry = "query_with_rag" /\ knowledge_base_id # None

\* query_without_memory(final_prompt): one iteration of the loop of
\* _converse_with_retry, and what query_without_memory does with its result: the
\* extracted text on success, its apology string when the wrapper raises.  Under
\* NoOpTracer the span is None and the wrapper raises before its first attempt.
Converse ==
    /\ pc = "converse"
    /\ IF ~observability
       THEN /\ response' = <<Apology, AttributeError>>
            /\ pc' = "store"
            /\ UNCHANGED <<bedrock_runtime, bedrock_agent_runtime, bedrock_agentcore,
                           converseLog, steps, attempt, refreshes>>
       ELSE \E outcome \in AttemptOutcomes(bedrock_runtime),
               converse_response \in ConverseResponses, rebuild_ok \in BOOLEAN :
               LET decision == ConverseDecision(outcome, attempt)
                   invoked == outcome.kind # "ClientInitError"
               IN
               /\ converseLog' = Append(converseLog, LogKind(outcome))
               /\ steps' = IF invoked
                            THEN Append(steps, Step("converse", outcome.kind = "ok"))
                            ELSE steps
               /\ IF decision = "refresh_retry"
                  THEN /\ RefreshClients(rebuild_ok)
                       /\ refreshes' = refreshes + 1
                  ELSE /\ bedrock_runtime' = IF invoked THEN "client" ELSE None
                       /\ UNCHANGED <<bedrock_agent_runtime, bedrock_agentcore,
                                      refreshes>>
               /\ CASE decision = "return" ->
                         /\ response' = ExtractResponseText(converse_response)
                         /\ pc' = "store"
                         /\ UNCHANGED attempt
                    [] decision \in {"refresh_retry", "retry"} ->
                         /\ attempt' = attempt + 1
                         /\ UNCHANGED <<response, pc>>
                    [] OTHER ->
                         /\ response' = <<Apology, outcome.code>>
                         /\ pc' = "store"
                         /\ UNCHANGED attempt
    /\ UNCHANGED <<observability, knowledge_base_id, memory_id, memory_client,
                   storeVars, entry, query, contexts, memory_context, final_prompt,
                   result, retrieveLog, fallback_at_entry, nQueries>>
    /\ UNCHANGED extVars

\* Mutant of UpdateMemoryArguments: the assembled prompt is stored as the
\* user's message.
UpdateMemoryArgumentsPrompt ==
    [user_message |-> final_prompt, assistant_message |-> response]

\* The arguments of `await self.update_memory(query, response)`: the query the
\* caller passed and the text query_without_memory returned.
UpdateMemoryArguments ==
    [user_message |-> query, assistant_message |-> response]

\* update_memory(query, response) and the return of the call.
StoreTurn ==
    /\ pc = "store"
    /\ \E primary_ok, fallback_ok \in BOOLEAN :
          LET turn == UpdateMemoryArguments
              stored == StoreConversationTurn(turn.user_message, turn.assistant_message,
                                              primary_ok, fallback_ok)
          IN  /\ steps' = steps \o stored.issued
              /\ events' = stored.events
              /\ memoryContents' = stored.memoryContents
              /\ result' =
                    IF stored.raised
                    THEN [kind |-> "string",
                          text |-> <<IF InRagPipeline THEN RagApology ELSE Apology,
                                     "StoreError">>]
                    ELSE [kind |-> "string", text |-> response]
    /\ pc' = "returned"
    /\ UNCHANGED <<agentVars, entry, query, attempt, contexts, memory_context,
                   final_prompt, response, retrieveLog, converseLog,
                   fallback_at_entry, refreshes, nQueries>>
    /\ UNCHANGED extVars

\* The caller takes the result; the agent is ready for its next call.
Return ==
    /\ pc \in {"returned", "raised"}
    /\ pc' = "idle"
    /\ entry' = None
    /\ query' = << >>
    /\ attempt' = 0
    /\ contexts' = << >>
    /\ memory_context' = << >>
    /\ final_prompt' = << >>
    /\ response' = << >>
    /\ result' = NoResult
    /\ steps' = << >>
    /\ retrieveLog' = << >>
    /\ converseLog' = << >>
    /\ fallback_at_entry' = None
    /\ refreshes' = 0
    /\ UNCHANGED <<agentVars, storeVars, nQueries>>
    /\ UNCHANGED extVars

Next ==
    \/ \E q \in Queries : QueryWithRag(q)
    \/ \E q \in Queries : Query(q)
    \/ Retrieve
    \/ RagHistory
    \/ QueryHistory
    \/ Converse
    \/ StoreTurn
    \/ Return

Spec == Init /\ [][Next]_vars

\* ------------------------------------------------- the memory adapter alone
\* Texts the model returns for the turns stored in MemorySpec.
Replies == {"r1"}
\* Values of k passed to _load_conversation_history.
LoadKs == {1, 2, default_k}

\* The event clear_memory creates: one message with the role "system".
ClearedEvent == << [role |-> "system", text |-> <<"Memory cleared">>] >>

\* clear_memory: the backend operation it issues and the events afterwards.  It
\* returns at once without the primary client or without a memory id.
ClearMemory(primary_ok) ==
    IF memory_client = None \/ memory_id = None
    THEN [issued |-> << >>, events |-> events]
    ELSE IF primary_ok
    THEN [issued |-> <<Step("create_event", TRUE)>>,
          events |-> Append(events, ClearedEvent)]
    ELSE [issued |-> <<Step("create_event", FALSE)>>, events |-> events]

\* A constructed agent with nothing stored for its session.
MemoryInitState ==
    /\ observability = TRUE
    /\ knowledge_base_id = None
    /\ AgentInit
    /\ events = << >>
    /\ memoryContents = << >>
    /\ CallInit
    /\ ExtInit

\* update_memory(q, r) -> _store_conversation_turn.
MemoryStore(q, r, backend_ok) ==
    /\ Len(turnsStored) < MaxTurns
    /\ LET stored == StoreConversationTurn(<<q>>, <<r>>, backend_ok, backend_ok)
           accepted == \E i \in 1..Len(stored.issued) : stored.issued[i].ok
       IN  /\ events' = stored.events
           /\ memoryContents' = stored.memoryContents
           /\ turnsStored' =
                 IF accepted
                 THEN Append(turnsStored, [user |-> <<q>>, assistant |-> <<r>>])
                 ELSE turnsStored
           /\ lastOp' = [op |-> "store", ok |-> accepted]
    /\ UNCHANGED <<observability, knowledge_base_id, agentVars, callVars,
                   load_k, clearsDone, handleVars>>
    /\ UNCHANGED serviceVars

\* _load_conversation_history(kk); get_memory_content calls it with k = 5.
MemoryLoad(kk, backend_ok) ==
    /\ LET loaded == LoadConversationHistory(kk, backend_ok, backend_ok)
       IN  /\ memory_context' = loaded.text
           /\ lastOp' = [op |-> "load",
                         ok |-> loaded.issued # << >> /\ Last(loaded.issued).ok]
    /\ load_k' = kk
    /\ UNCHANGED <<agentVars, storeVars, pc, entry, query, attempt, contexts,
                   final_prompt, response, result, steps, retrieveLog, converseLog,
                   fallback_at_entry, refreshes, nQueries, turnsStored, clearsDone,
                   handleVars>>
    /\ UNCHANGED serviceVars

\* clear_memory().
MemoryClear(backend_ok) ==
    /\ clearsDone < MaxClears
    /\ LET cleared == ClearMemory(backend_ok)
           failed == cleared.issued # << >> /\ ~Last(cleared.issued).ok
       IN  /\ events' = cleared.events
           /\ clearsDone' = IF failed THEN clearsDone ELSE clearsDone + 1
           /\ lastOp' = [op |-> "clear", ok |-> ~failed]
    /\ UNCHANGED <<agentVars, memoryContents, callVars, load_k, turnsStored,
                   handleVars>>
    /\ UNCHANGED serviceVars

MemoryNext ==
    \/ \E q \in Queries, r \in Replies, backend_ok \in BOOLEAN :
          MemoryStore(q, r, backend_ok)
    \/ \E kk \in LoadKs, backend_ok \in BOOLEAN : MemoryLoad(kk, backend_ok)
    \/ \E backend_ok \in BOOLEAN : MemoryClear(backend_ok)

MemorySpec == MemoryInitState /\ [][MemoryNext]_vars

\* ------------------------------------------------ the cached client handles
\* Mutant of CachedOrBuilt: a client is built on every access.
CachedOrBuiltAlways(cached, fresh) == fresh

\* The lazy client properties: `if self._x is None: self._x = session.client(..)`
\* and `return self._x`.
CachedOrBuilt(cached, fresh) == IF cached = None THEN fresh ELSE cached

\* The n-th client object constructed by session.client(...).
Handle(n) == "client" \o ToString(n)

\* A constructed agent; in ClientSpec a cached client is the object that was
\* built, so that two clients of one service can be told apart.
ClientInitState ==
    /\ observability = TRUE
    /\ knowledge_base_id = None
    /\ AgentInit
    /\ events = << >>
    /\ memoryContents = << >>
    /\ CallInit
    /\ ExtInit

\* What one access to a client property does, given the cached value: the
\* handle it returns ("raised" when building the client fails) and the counters.
AccessClient(service, cached, build_ok) ==
    IF cached = None /\ ~build_ok
    THEN [handle |-> None, handles_built |-> handles_built, built |-> built,
          yielded |-> [yielded EXCEPT ![service] = Append(@, "raised")]]
    ELSE LET h == CachedOrBuilt(cached, Handle(handles_built + 1))
             constructed == IF h # cached THEN 1 ELSE 0
         IN  [handle |-> h,
              handles_built |-> handles_built + constructed,
              built |-> [built EXCEPT ![service] = @ + constructed],
              yielded |-> [yielded EXCEPT ![service] = Append(@, h)]]

\* self.bedrock_runtime
AccessBedrockRuntime(build_ok) ==
    /\ Len(yielded["bedrock-runtime"]) < MaxAccesses
    /\ bedrock_runtime # None \/ handles_built < MaxHandles
    /\ LET a == AccessClient("bedrock-runtime", bedrock_runtime, build_ok)
       IN  /\ bedrock_runtime' = a.handle
           /\ handles_built' = a.handles_built
           /\ built' = a.built
           /\ yielded' = a.yielded
    /\ UNCHANGED <<observability, knowledge_base_id, memory_id, memory_client,
                   bedrock_agentcore, bedrock_agent_runtime, storeVars, callVars,
                   memoryVars, retired, attrVars>>
    /\ UNCHANGED serviceVars

\* self.bedrock_agent_runtime
AccessBedrockAgentRuntime(build_ok) ==
    /\ Len(yielded["bedrock-agent-runtime"]) < MaxAccesses
    /\ bedrock_agent_runtime # None \/ handles_built < MaxHandles
    /\ LET a == AccessClient("bedrock-agent-runtime", bedrock_agent_runtime, build_ok)
       IN  /\ bedrock_agent_runtime' = a.handle
           /\ handles_built' = a.handles_built
           /\ built' = a.built
           /\ yielded' = a.yielded
    /\ UNCHANGED <<observability, knowledge_base_id, memory_id, memory_client,
                   bedrock_agentcore, bedrock_runtime, storeVars, callVars,
                   memoryVars, retired, attrVars>>
    /\ UNCHANGED serviceVars

\* self.refresh_clients()
ClientRefresh(rebuild_ok) ==
    /\ RefreshClients(rebuild_ok)
    /\ retired' = retired \cup ({bedrock_runtime, bedrock_agent_runtime} \ {None})
    /\ built' = [s \in Services |-> 0]
    /\ yielded' = [s \in Services |-> << >>]
    /\ UNCHANGED <<observability, knowledge_base_id, memory_id, memory_client,
                   storeVars, callVars, memoryVars, handles_built, attrVars>>
    /\ UNCHANGED serviceVars

Roles == {"user", "assistant"}

\* A message as the tests read it: message['role'], message['content'][0]['text'].
Message(role, text) == [role |-> role, text |-> text]

\* agent.add_to_history(role, text): CustomEnvisionAgent defines no such
\* method and no conversation_history, so the attribute lookup raises and the
\* agent is left as it was.
AddToHistory(role, text) ==
    /\ Len(history_adds) < MaxAdds
    /\ history_adds' = Append(history_adds, Message(role, text))
    /\ history_error' = AttributeError
    /\ UNCHANGED <<conversation_history, handles_built, built, yielded, retired>>
    /\ UNCHANGED <<coreVars, memoryVars, serviceVars>>

ClientNext ==
    \/ \E role \in Roles, text \in Queries : AddToHistory(role, text)
    \/ \E build_ok \in BOOLEAN : AccessBedrockRuntime(build_ok)
    \/ \E build_ok \in BOOLEAN : AccessBedrockAgentRuntime(build_ok)
    \/ \E rebuild_ok \in BOOLEAN : ClientRefresh(rebuild_ok)

ClientSpec == ClientInitState /\ [][ClientNext]_vars

\* ------------------------------------------------------ sessions of src/api.py
\* request.session.get("user"): the ids of the signed-in users.
Users == {"u1", "u2"}

\* secrets.token_urlsafe(16): the n-th session id handed out.
SessionId(n) == "s" \o ToString(n)
\* Session ids a client may send: ids handed out and one that never was.
SessionIds == {SessionId(n) : n \in 1..sessions_created} \cup {"unknown"}

\* No CustomEnvisionAgent is involved in src/api.py.
NoAgent ==
    /\ observability = TRUE
    /\ knowledge_base_id = None
    /\ memory_id = None
    /\ memory_client = None
    /\ bedrock_agentcore = None
    /\ bedrock_runtime = None
    /\ bedrock_agent_runtime = None
    /\ events = << >>
    /\ memoryContents = << >>
    /\ CallInit

ApiInitState ==
    /\ NoAgent
    /\ MemoryInit
    /\ HandleInit
    /\ STRANDS_KNOWLEDGE_BASE_ID \in {None, "kb"}
    /\ agent_sessions = [sid \in {} |-> None]
    /\ in_flight = << >>
    /\ sessions_created = 0
    /\ requests_begun = 0
    /\ last_response = NoResponse
    /\ last_request = NoRequest
    /\ overtaken = {}
    /\ completed = [sid \in {} |-> << >>]
    /\ StreamInit
    /\ ProxyInit
    /\ RuntimeInit

\* format_response_html: markdown.markdown wraps the text in a paragraph.
FormatResponseHtml(text) == <<"<p>">> \o text \o <<"</p>">>

\* The entry a query handler adds to chat_history.
Exchange(q, response_text) ==
    [query |-> q, response |-> response_text,
     formatted_response |-> FormatResponseHtml(response_text)]

\* Mutant of AppendExchange: the history is replaced by the new exchange.
AppendExchangeReplacing(chat_history, exchange) == <<exchange>>

\* chat_history.append(exchange)
AppendExchange(chat_history, exchange) == Append(chat_history, exchange)

Answered(route, outcome) == [route |-> route, outcome |-> outcome]

Received(route, user, sid) == [route |-> route, user |-> user, session_id |-> sid]

\* agent_sessions[session_id] = {...} of the two connect handlers.
NewSession(user) ==
    [sid \in DOMAIN agent_sessions \cup {SessionId(sessions_created + 1)} |->
        IF sid = SessionId(sessions_created + 1)
        THEN [user_id |-> user, chat_history |-> << >>]
        ELSE agent_sessions[sid]]

\* The log of appends kept for the sessions given: a new session starts with
\* an empty log, and the log of a deleted session is dropped.
Logged(sessions) ==
    [sid \in DOMAIN sessions |->
        IF sid \in DOMAIN completed THEN completed[sid] ELSE << >>]

\* POST /web/connect
WebConnect(user, agent_ok) ==
    /\ requests_begun < MaxRequests
    /\ requests_begun' = requests_begun + 1
    /\ IF user = None
       THEN /\ last_response' = Answered("/web/connect", "redirect_login")
            /\ UNCHANGED <<agent_sessions, sessions_created>>
       ELSE IF STRANDS_KNOWLEDGE_BASE_ID = None
       THEN /\ last_response' = Answered("/web/connect", "error.html")
            /\ UNCHANGED <<agent_sessions, sessions_created>>
       ELSE IF ~agent_ok
       THEN /\ last_response' = Answered("/web/connect", "connect.html")
            /\ UNCHANGED <<agent_sessions, sessions_created>>
       ELSE /\ agent_sessions' = NewSession(user)
            /\ sessions_created' = sessions_created + 1
            /\ last_response' = Answered("/web/connect", "chat.html")
    /\ last_request' = Received("/web/connect", user, None)
    /\ completed' = Logged(agent_sessions')
    /\ UNCHANGED <<STRANDS_KNOWLEDGE_BASE_ID, in_flight, overtaken, nonApiVars>>

\* POST /connect
ApiConnect(user, agent_ok) ==
    /\ requests_begun < MaxRequests
    /\ requests_begun' = requests_begun + 1
    /\ IF user = None
       THEN /\ last_response' = Answered("/connect", "401")
            /\ UNCHANGED <<agent_sessions, sessions_created>>
       ELSE IF STRANDS_KNOWLEDGE_BASE_ID = None
       THEN /\ last_response' = Answered("/connect", "503")
            /\ UNCHANGED <<agent_sessions, sessions_created>>
       ELSE IF ~agent_ok
       THEN /\ last_response' = Answered("/connect", "500")
            /\ UNCHANGED <<agent_sessions, sessions_created>>
       ELSE /\ agent_sessions' = NewSession(user)
            /\ sessions_created' = sessions_created + 1
            /\ last_response' = Answered("/connect", "200")
    /\ last_request' = Received("/connect", user, None)
    /\ completed' = Logged(agent_sessions')
    /\ UNCHANGED <<STRANDS_KNOWLEDGE_BASE_ID, in_flight, overtaken, nonApiVars>>

\* A query request that found its session, waiting for its tool calls: its
\* route, the user who sent it, its session and its query.
Pending(route, user, sid, q) ==
    [route |-> route, user |-> user, session_id |-> sid, query |-> q]

\* The sequence without its i-th element.
Remove(seq, i) == SubSeq(seq, 1, i - 1) \o SubSeq(seq, i + 1, Len(seq))

\* POST /web/query up to its first await: the user and session checks.
WebQueryBegin(user, sid, q) ==
    /\ requests_begun < MaxRequests
    /\ requests_begun' = requests_begun + 1
    /\ IF user = None
       THEN /\ last_response' = Answered("/web/query", "redirect_login")
            /\ UNCHANGED in_flight
       ELSE IF sid \notin DOMAIN agent_sessions
       THEN /\ last_response' = Answered("/web/query", "error.html")
            /\ UNCHANGED in_flight
       ELSE /\ Len(in_flight) < MaxInFlight
            /\ in_flight' = Append(in_flight, Pending("/web/query", user, sid, q))
            /\ UNCHANGED last_response
    /\ last_request' = Received("/web/query", user, sid)
    /\ UNCHANGED <<STRANDS_KNOWLEDGE_BASE_ID, agent_sessions, sessions_created,
                   overtaken, completed, nonApiVars>>

\* How the tool calls of /web/query end, and the response_text each gives.
WebOutcomes == {"store", "retrieve", "error"}
WebResponseText(outcome) ==
    CASE outcome = "store" ->
            <<"Acknowledged. I've noted that down. (Store result: ", "ok", ")">>
      [] outcome = "retrieve" -> <<"a1">>
      [] OTHER ->
            <<"Sorry, I encountered an error trying to process your request: ", "e">>

\* Mutant of WithExchange: the handler adds the exchange to a copy of the
\* history, and the copy is dropped when another request on the session is
\* still waiting.
WithExchangeOnCopy(sid, exchange) ==
    IF /\ sid \in DOMAIN agent_sessions
       /\ Cardinality({i \in 1..Len(in_flight) : in_flight[i].session_id = sid}) <= 1
    THEN [agent_sessions EXCEPT
            ![sid].chat_history = AppendExchange(@, exchange)]
    ELSE agent_sessions

\* The session data with the exchange added to the chat_history the handler
\* holds; a session deleted in the meantime is no longer in agent_sessions.
WithExchange(sid, exchange) ==
    IF sid \in DOMAIN agent_sessions
    THEN [agent_sessions EXCEPT
            ![sid].chat_history = AppendExchange(@, exchange)]
    ELSE agent_sessions

\* Mutant of ReachesAppend: no handler records a failed request.
ReachesAppendOnSuccess(route, tools_ok) == tools_ok

\* Whether the handler gets to its chat_history.append: /web/query catches the
\* exception of its tool calls and goes on, /query answers 500 at once.
ReachesAppend(route, tools_ok) == route = "/web/query" \/ tools_ok

\* The log of appends once a request on session sid has got to its append; the
\* log is kept for the sessions in agent_sessions.
Completing(sid, exchange) ==
    IF sid \in DOMAIN completed
    THEN [completed EXCEPT ![sid] = Append(@, exchange)]
    ELSE completed

\* The sessions with an out-of-order append once the i-th waiting request has
\* appended: its own session joins them when an older request on that session
\* is still waiting.
Overtaking(i) ==
    IF /\ in_flight[i].session_id \in DOMAIN agent_sessions
       /\ \E j \in 1..(i - 1) : in_flight[j].session_id = in_flight[i].session_id
    THEN overtaken \cup {in_flight[i].session_id}
    ELSE overtaken

\* POST /web/query from the return of its tool calls: every outcome, an error
\* too, is added to the chat history.
WebQueryEnd(i, outcome) ==
    /\ i \in 1..Len(in_flight)
    /\ in_flight[i].route = "/web/query"
    /\ in_flight' = Remove(in_flight, i)
    /\ LET req == in_flight[i]
           exchange == Exchange(req.query, WebResponseText(outcome))
       IN  IF ReachesAppend("/web/query", outcome # "error")
           THEN /\ agent_sessions' = WithExchange(req.session_id, exchange)
                /\ overtaken' = Overtaking(i)
                /\ completed' = Completing(req.session_id, exchange)
           ELSE UNCHANGED <<agent_sessions, overtaken, completed>>
    /\ last_response' = Answered("/web/query", "response.html")
    /\ UNCHANGED <<STRANDS_KNOWLEDGE_BASE_ID, sessions_created, requests_begun,
                   last_request, nonApiVars>>

\* POST /query up to its first await.
ApiQueryBegin(user, sid, q) ==
    /\ requests_begun < MaxRequests
    /\ requests_begun' = requests_begun + 1
    /\ IF user = None
       THEN /\ last_response' = Answered("/query", "401")
            /\ UNCHANGED in_flight
       ELSE IF sid \notin DOMAIN agent_sessions
       THEN /\ last_response' = Answered("/query", "404")
            /\ UNCHANGED in_flight
       ELSE /\ Len(in_flight) < MaxInFlight
            /\ in_flight' = Append(in_flight, Pending("/query", user, sid, q))
            /\ UNCHANGED last_response
    /\ last_request' = Received("/query", user, sid)
    /\ UNCHANGED <<STRANDS_KNOWLEDGE_BASE_ID, agent_sessions, sessions_created,
                   overtaken, completed, nonApiVars>>

\* POST /query from the return of its tool calls: an error answers 500 and adds
\* nothing.
ApiQueryEnd(i, tools_ok) ==
    /\ i \in 1..Len(in_flight)
    /\ in_flight[i].route = "/query"
    /\ in_flight' = Remove(in_flight, i)
    /\ LET req == in_flight[i]
           exchange == Exchange(req.query, <<"a1">>)
       IN  IF ReachesAppend("/query", tools_ok)
           THEN /\ agent_sessions' = WithExchange(req.session_id, exchange)
                /\ overtaken' = Overtaking(i)
                /\ completed' = Completing(req.session_id, exchange)
           ELSE UNCHANGED <<agent_sessions, overtaken, completed>>
    /\ last_response' = Answered("/query", IF tools_ok THEN "200" ELSE "500")
    /\ UNCHANGED <<STRANDS_KNOWLEDGE_BASE_ID, sessions_created, requests_begun,
                   last_request, nonApiVars>>

\* Mutant of MayDelete: any authenticated user may delete any session.
MayDeleteAny(user, session_owner_id) == TRUE

\* session_owner_id == user.get("id")
MayDelete(user, session_owner_id) == session_owner_id = user

\* DELETE /session/{session_id}
CleanupSession(user, sid) ==
    /\ requests_begun < MaxRequests
    /\ requests_begun' = requests_begun + 1
    /\ IF user = None
       THEN /\ last_response' = Answered("/session", "401")
            /\ UNCHANGED agent_sessions
       ELSE IF sid \in DOMAIN agent_sessions
       THEN IF MayDelete(user, agent_sessions[sid].user_id)
            THEN /\ agent_sessions' =
                       [s \in DOMAIN agent_sessions \ {sid} |-> agent_sessions[s]]
                 /\ last_response' = Answered("/session", "200")
            ELSE /\ last_response' = Answered("/session", "403")
                 /\ UNCHANGED agent_sessions
       ELSE /\ last_response' = Answered("/session", "404")
            /\ UNCHANGED agent_sessions
    /\ last_request' = Received("/session", user, sid)
    /\ completed' = Logged(agent_sessions')
    /\ UNCHANGED <<STRANDS_KNOWLEDGE_BASE_ID, in_flight, sessions_created,
                   overtaken, nonApiVars>>

\* The query texts sent to src/api.py: the handlers pass the text on and never
\* look at it.
ApiQueries == {"q1"}

ApiNext ==
    \/ \E user \in Users \cup {None}, agent_ok \in BOOLEAN : WebConnect(user, agent_ok)
    \/ \E user \in Users \cup {None}, agent_ok \in BOOLEAN : ApiConnect(user, agent_ok)
    \/ \E user \in Users \cup {None}, sid \in SessionIds, q \in ApiQueries :
          WebQueryBegin(user, sid, q)
    \/ \E i \in 1..Len(in_flight), outcome \in WebOutcomes : WebQueryEnd(i, outcome)
    \/ \E user \in Users \cup {None}, sid \in SessionIds, q \in ApiQueries :
          ApiQueryBegin(user, sid, q)
    \/ \E i \in 1..Len(in_flight), tools_ok \in BOOLEAN : ApiQueryEnd(i, tools_ok)
    \/ \E user \in Users \cup {None}, sid \in SessionIds : CleanupSession(user, sid)

ApiSpec == ApiInitState /\ [][ApiNext]_vars

\* ------------------------------------------- the event stream of src/agent.py
\* What agent.tool.memory(action="retrieve") may return.
TextItem(t) == [kind |-> "dict", text |-> t]
StrItem(t) == [kind |-> "str", text |-> t]
OtherItem == [kind |-> "other", text |-> ""]
KbResults ==
    { [kind |-> "list", items |-> << >>, text |-> ""],
      [kind |-> "list", items |-> <<TextItem("A"), OtherItem, StrItem("B")>>, text |-> ""],
      [kind |-> "dict", items |-> << >>, text |-> "A"],
      [kind |-> "other", items |-> << >>, text |-> ""] }

\* contexts of invocations().
InvocationContexts(retrieved_data_raw) ==
    CASE retrieved_data_raw.kind = "list" ->
            LET kept == SelectSeq(retrieved_data_raw.items,
                                  LAMBDA item : item.kind \in {"dict", "str"})
            IN  [i \in 1..Len(kept) |-> <<kept[i].text>>]
      [] retrieved_data_raw.kind \in {"dict", "str"} -> << <<retrieved_data_raw.text>> >>
      [] OTHER -> << >>

\* final_prompt_for_llm of invocations().
InvocationPrompt(q, ctxs) ==
    IF ctxs = << >>
    THEN <<NoInfoHead>> \o q \o <<NoInfoTail>>
    ELSE <<ContextHead>> \o Join(ctxs, <<Separator>>)
            \o <<UserQueryLabel>> \o q \o <<ContextTail>>

\* What agent.tool.use_agent may return.
LlmOutputs ==
    { [kind |-> "str", text |-> <<"t1", NL, "t2">>],
      [kind |-> "str", text |-> << >>],
      [kind |-> "none", text |-> << >>],
      [kind |-> "dict", text |-> <<"t1", NL>>],
      [kind |-> "dict", text |-> << >>] }

RECURSIVE StripLeft(_)
StripLeft(text) ==
    IF text # << >> /\ text[1] = NL THEN StripLeft(Tail(text)) ELSE text

RECURSIVE StripRight(_)
StripRight(text) ==
    IF text # << >> /\ Last(text) = NL
    THEN StripRight(SubSeq(text, 1, Len(text) - 1)) ELSE text

\* str.strip()
Strip(text) == StripRight(StripLeft(text))

\* _extract_main_text_from_llm_output
ExtractMainText(llm_output) ==
    CASE llm_output.kind = "str" -> llm_output.text
      [] llm_output.kind = "dict" ->
            IF Strip(llm_output.text) # << >>
            THEN Strip(llm_output.text) ELSE <<"{'content': []}">>
      [] OTHER -> << >>

\* text.replace("\n", "\\n")
Escape(text) == [i \in 1..Len(text) |-> IF text[i] = NL THEN "\\n" ELSE text[i]]

KbTimeoutMessage ==
    "Sorry, the request timed out while searching for information. Please try again."
LlmTimeoutMessage ==
    "Sorry, the request timed out while generating a response. Please try rephrasing your question."

ChunkEvent(text) == [type |-> "chunk", content |-> Escape(text)]
EndEvent == [type |-> "end", content |-> << >>]
ErrorEvent(message) == [type |-> "error", content |-> Escape(message)]

CallOutcomes == {"ok", "timeout", "error"}

ApiQuiet ==
    /\ STRANDS_KNOWLEDGE_BASE_ID = "kb"
    /\ agent_sessions = [sid \in {} |-> None]
    /\ in_flight = << >>
    /\ sessions_created = 0
    /\ requests_begun = 0
    /\ last_response = NoResponse
    /\ last_request = NoRequest
    /\ overtaken = {}
    /\ completed = [sid \in {} |-> << >>]

StreamInitState ==
    /\ NoAgent
    /\ MemoryInit
    /\ HandleInit
    /\ ApiQuiet
    /\ StreamInit
    /\ ProxyInit
    /\ RuntimeInit

\* POST /invocations up to its first await; a new request starts a new stream.
InvocationsBegin(q) ==
    /\ inv_pc \in {"idle", "exhausted", "closed"}
    /\ inv_pc' = "retrieving"
    /\ inv_query' = <<q>>
    /\ inv_prompt' = << >>
    /\ stream_events' = << >>
    /\ llm_invocations' = 0
    /\ kb_outcome' = "none"
    /\ llm_outcome' = "none"
    /\ UNCHANGED nonStreamVars

\* Mutant of ProceedsToModel: a retrieval that timed out goes on to the model.
ProceedsToModelOnTimeout(outcome) == outcome \in {"ok", "timeout"}

\* Whether invocations() goes on to stream_agent_response after the retrieval:
\* a timeout and any other exception return an error stream instead.
ProceedsToModel(outcome) == outcome = "ok"

\* invocations() from the end of the retrieval (wait_for, 30 s): it returns the
\* stream of stream_agent_response, whose first step submits the model call, or
\* a stream of one error event.
KbRetrieved(outcome, retrieved_data_raw) ==
    /\ inv_pc = "retrieving"
    /\ kb_outcome' = outcome
    /\ IF ProceedsToModel(outcome)
       THEN /\ inv_prompt' = InvocationPrompt(inv_query, InvocationContexts(retrieved_data_raw))
            /\ llm_invocations' = llm_invocations + 1
            /\ inv_pc' = "awaiting_llm"
            /\ UNCHANGED stream_events
       ELSE /\ stream_events' =
                  Append(stream_events,
                         ErrorEvent(IF outcome = "timeout"
                                    THEN <<KbTimeoutMessage>>
                                    ELSE <<"Error preparing your request: ", "e">>))
            /\ inv_pc' = "at_error"
            /\ UNCHANGED <<inv_prompt, llm_invocations>>
    /\ UNCHANGED <<inv_query, llm_outcome, nonStreamVars>>

\* The first event stream_agent_response yields once wait_for (120 s) is over,
\* and where the generator is suspended then.
FirstEvent(outcome, text) ==
    CASE outcome = "ok" /\ text # << >> -> [event |-> ChunkEvent(text), pc |-> "at_chunk"]
      [] outcome = "ok" /\ text = << >> -> [event |-> EndEvent, pc |-> "at_end"]
      [] outcome = "timeout" ->
            [event |-> ErrorEvent(<<LlmTimeoutMessage>>), pc |-> "at_error"]
      [] OTHER ->
            [event |-> ErrorEvent(<<"Sorry, an error occurred: ", "e">>), pc |-> "at_error"]

\* stream_agent_response from the end of the model call to its first yield.
LlmDone(outcome, llm_tool_output) ==
    /\ inv_pc = "awaiting_llm"
    /\ llm_outcome' = outcome
    /\ LET first == FirstEvent(outcome, ExtractMainText(llm_tool_output))
       IN  /\ stream_events' = Append(stream_events, first.event)
           /\ inv_pc' = first.pc
    /\ UNCHANGED <<inv_query, inv_prompt, llm_invocations, kb_outcome, nonStreamVars>>

\* Mutant of ResumeFrom: the generator ends after the chunk.
ResumeFromNoEnd(position) == [events |-> << >>, pc |-> "exhausted"]

\* What the generator does when the consumer asks for the next event: after the
\* chunk it yields the end event, after the end or an error event it returns.
ResumeFrom(position) ==
    IF position = "at_chunk"
    THEN [events |-> <<EndEvent>>, pc |-> "at_end"]
    ELSE [events |-> << >>, pc |-> "exhausted"]

\* The consumer asks for the next event.
StreamResume ==
    /\ inv_pc \in {"at_chunk", "at_end", "at_error"}
    /\ stream_events' = stream_events \o ResumeFrom(inv_pc).events
    /\ inv_pc' = ResumeFrom(inv_pc).pc
    /\ UNCHANGED <<inv_query, inv_prompt, llm_invocations, kb_outcome, llm_outcome,
                   nonStreamVars>>

\* The consumer goes away and the suspended generator is closed: GeneratorExit
\* is no Exception, so no except clause of the generator runs.
StreamClose ==
    /\ inv_pc \in {"at_chunk", "at_end", "at_error"}
    /\ inv_pc' = "closed"
    /\ UNCHANGED <<inv_query, inv_prompt, stream_events, llm_invocations, kb_outcome,
                   llm_outcome, nonStreamVars>>

StreamNext ==
    \/ \E q \in Queries : InvocationsBegin(q)
    \/ \E outcome \in CallOutcomes, data \in KbResults : KbRetrieved(outcome, data)
    \/ \E outcome \in CallOutcomes, out \in LlmOutputs : LlmDone(outcome, out)
    \/ StreamResume
    \/ StreamClose

StreamSpec == StreamInitState /\ [][StreamNext]_vars

\* ------------------------------- the Lambda proxy, src/lambda/agentcore_proxy.py
\* event.get('httpMethod'); None when the event has no such key.
Methods == {"OPTIONS", "POST", "GET", None}

\* An event: its method, whether isBase64Encoded is set, and the form of its
\* body: "absent" (no 'body' key), "null" (the key holds None, as API Gateway
\* sends for a request without a body), "bad_base64" (isBase64Encoded with a
\* body that does not decode), "invalid_json", "json_array" (JSON, but no
\* object) and "object" with its prompt and sessionId (None when absent).
Event(m, encoding, form, prompt, session_id) ==
    [httpMethod |-> m, encoding |-> encoding, form |-> form,
     prompt |-> prompt, sessionId |-> session_id]

ProxyEvents ==
    {Event(m, "plain", form, None, None) : m \in Methods, form \in {"absent", "null"}}
    \cup {Event(m, "base64", "bad_base64", None, None) : m \in Methods}
    \cup {Event(m, enc, form, None, None) :
             m \in Methods, enc \in {"plain", "base64"},
             form \in {"invalid_json", "json_array"}}
    \cup {Event(m, enc, "object", prompt, session_id) :
             m \in Methods, enc \in {"plain", "base64"},
             prompt \in {None, "", "Hello"}, session_id \in {None, "test-session"}}

\* The content types process_agentcore_response tells apart.
ContentTypes == {"text/event-stream", "application/json", "text/plain"}

\* response.get("response"): "stream" (a StreamingBody: iter_lines and read),
\* "broken_lines" (iter_lines raises, read works), "broken" (both raise),
\* "string" (a str: neither method), "empty" (None or another falsy value) and
\* "absent" (no such key).
BodyKinds == {"stream", "broken_lines", "broken", "string", "empty", "absent"}

\* What the body holds when it is JSON: an object whose 'response' is a string,
\* an object without 'response', an object whose 'response' is a number, an
\* array; "text" when it is no JSON.
JsonForms == {"text", "object", "object_plain", "number_response", "array"}

Reply(content_type, body, json, lines) ==
    [contentType |-> content_type, body |-> body, json |-> json, lines |-> lines]

EventLines == << <<"data: ", "Hello!">>, <<"data: ", "How can I help?">> >>

\* The response dictionaries handed to process_agentcore_response.
AgentReplies ==
    {Reply(ct, body, "text", EventLines) :
        ct \in {"text/event-stream", "text/plain"}, body \in BodyKinds}
    \cup {Reply("application/json", body, json, << <<"Hello!">> >>) :
             body \in BodyKinds, json \in JsonForms}

\* What a call of process_agentcore_response gives its caller: a str, None (the
\* function ends without a return statement), a value that is no str, or the
\* exception that left it.
Str(text) == [kind |-> "str", text |-> text]
NoneReturned == [kind |-> "None", text |-> << >>]
NotStr == [kind |-> "not_str", text |-> << >>]
ProcessRaised == [kind |-> "raised", text |-> <<"AttributeError">>]

BodyRepr == <<"<StreamingBody>">>
ResponseRepr == <<"{}">>

\* The text/event-stream branch of process_agentcore_response.
EventStreamText(reply) ==
    CASE reply.body \in {"stream"} ->
            Str(Join([i \in 1..Len(reply.lines) |->
                         IF reply.lines[i][1] = "data: "
                         THEN Tail(reply.lines[i]) ELSE reply.lines[i]],
                     <<NL>>))
      [] reply.body = "broken_lines" -> Str(Flatten(reply.lines))
      [] reply.body = "broken" -> Str(<<"Error processing response: ", "e">>)
      [] OTHER -> NoneReturned

\* The application/json branch.
JsonText(reply) ==
    CASE reply.body \in {"empty", "absent"} -> NoneReturned
      [] reply.body \in {"broken_lines", "broken"} -> Str(BodyRepr)
      [] reply.json = "object" -> Str(<<"Hello!">>)
      [] reply.json = "object_plain" -> Str(<<"{'text': 'Hello!'}">>)
      [] reply.json = "number_response" -> NotStr
      [] OTHER -> Str(Flatten(reply.lines))

\* The branch of the other content types.
OtherText(reply) ==
    CASE reply.body \in {"empty", "absent"} -> Str(ResponseRepr)
      [] reply.body = "broken" -> Str(BodyRepr)
      [] OTHER -> Str(Flatten(reply.lines))

\* process_agentcore_response(response).  Without opentelemetry the span is
\* None: span.set_attribute raises inside the try block and span.set_status
\* raises again inside its except clause.
ProcessAgentcoreResponse(reply) ==
    IF ~proxy_observability
    THEN ProcessRaised
    ELSE CASE reply.contentType = "text/event-stream" -> EventStreamText(reply)
           [] reply.contentType = "application/json" -> JsonText(reply)
           [] OTHER -> OtherText(reply)

RequiredCors ==
    {"Access-Control-Allow-Origin", "Access-Control-Allow-Methods",
     "Access-Control-Allow-Headers"}

HeaderValue(h) ==
    CASE h = "Access-Control-Allow-Origin" -> "*"
      [] h = "Access-Control-Allow-Methods" -> "POST, OPTIONS"
      [] h = "Access-Control-Allow-Headers" -> "Content-Type, Authorization"
      [] h = "Access-Control-Max-Age" -> "86400"
      [] OTHER -> "application/json"

Headers(names) == [h \in names |-> HeaderValue(h)]

Returned(status_code, headers, body, session_id) ==
    [kind |-> "returned", statusCode |-> status_code, headers |-> headers,
     body |-> body, sessionId |-> session_id]

\* The exception left lambda_handler: the caller gets no response from it.
Raised ==
    [kind |-> "raised", statusCode |-> 0, headers |-> [h \in {} |-> None],
     body |-> <<"AttributeError">>, sessionId |-> None]

\* Mutant of CreateErrorResponse: only the content type is set.
CreateErrorResponseNoCors(status_code, message) ==
    Returned(status_code, Headers({"Content-Type"}), message, None)

\* create_error_response(status_code, message)
CreateErrorResponse(status_code, message) ==
    Returned(status_code, Headers(RequiredCors \cup {"Content-Type"}), message, None)

\* The 500 response built in the except clause of lambda_handler.
InternalError(detail) ==
    Returned(500, Headers(RequiredCors \cup {"Content-Type"}),
             <<"Internal server error: ", detail>>, None)

\* The parsing of the request body: "missing" (no 'body' key), "json_error"
\* (json.JSONDecodeError, the one exception the inner try catches), the name of
\* any other exception raised on the way, or "ok".
ParseBody(event) ==
    CASE event.form = "absent" -> "missing"
      [] event.form = "null" -> "TypeError"
      [] event.form = "bad_base64" -> "binascii.Error"
      [] event.form = "invalid_json" -> "json_error"
      [] OTHER -> "ok"

\* lambda_handler(event, context): the response, the number of
\* invoke_agent_runtime calls, and how the call ended.  invoke_ok and reply are
\* what invoke_agent_runtime does if it is called.
LambdaHandler(event, invoke_ok, reply) ==
    LET done(resp) == [response |-> resp, invocations |-> 0, outcome |-> "none"]
        parsed == ParseBody(event)
        session_id == IF event.sessionId = None THEN "" ELSE event.sessionId
    IN
    IF ~proxy_observability
    THEN done(Raised)
    ELSE IF event.httpMethod = "OPTIONS"
    THEN done(Returned(200, Headers(RequiredCors \cup {"Access-Control-Max-Age"}),
                       << >>, None))
    ELSE IF parsed = "missing"
    THEN done(CreateErrorResponse(400, <<"Missing request body">>))
    ELSE IF parsed = "json_error"
    THEN done(CreateErrorResponse(400, <<"Invalid JSON in request body: ", "e">>))
    ELSE IF parsed # "ok"
    THEN done(InternalError(parsed))
    ELSE IF event.form = "json_array"
    THEN done(InternalError("AttributeError"))
    ELSE IF event.prompt = None \/ event.prompt = ""
    THEN done(CreateErrorResponse(400, <<"Missing 'prompt' in request body">>))
    ELSE IF ~invoke_ok
    THEN [response |-> InternalError("ClientError"), invocations |-> 1,
          outcome |-> "raised"]
    ELSE IF ProcessAgentcoreResponse(reply).kind # "str"
    THEN [response |-> InternalError("TypeError"), invocations |-> 1,
          outcome |-> "unreadable"]
    ELSE [response |-> Returned(200, Headers(RequiredCors \cup {"Content-Type"}),
                                ProcessAgentcoreResponse(reply).text, session_id),
          invocations |-> 1, outcome |-> "answered"]

ProxyInitState ==
    /\ NoAgent
    /\ MemoryInit
    /\ HandleInit
    /\ ApiQuiet
    /\ StreamInit
    /\ proxy_observability \in BOOLEAN
    /\ ProxyIdle
    /\ RuntimeInit

\* One call of lambda_handler.
LambdaHandlerCall(event, invoke_ok, reply) ==
    /\ proxy_event' = event
    /\ LET handled == LambdaHandler(event, invoke_ok, reply)
       IN  /\ proxy_response' = handled.response
           /\ agent_invocations' = handled.invocations
           /\ invoke_outcome' = handled.outcome
    /\ UNCHANGED <<proxy_observability, processed_reply, processed, nonProxyVars>>

\* One call of process_agentcore_response from outside lambda_handler.
ProcessResponseCall(reply) ==
    /\ processed_reply' = reply
    /\ processed' = ProcessAgentcoreResponse(reply)
    /\ UNCHANGED <<proxy_observability, proxy_event, proxy_response,
                   agent_invocations, invoke_outcome, nonProxyVars>>

\* The reply of a call that does not get as far as reading one.
UnreadReply == Reply("text/event-stream", "stream", "text", EventLines)

\* Whether lambda_handler gets as far as invoke_agent_runtime for the event.
Invokes(event) == LambdaHandler(event, FALSE, UnreadReply).invocations = 1

\* The outcome of invoke_agent_runtime and its reply are drawn only for the
\* calls that get to them.
ProxyNext ==
    \/ \E event \in ProxyEvents :
          IF Invokes(event)
          THEN \/ LambdaHandlerCall(event, FALSE, UnreadReply)
               \/ \E reply \in AgentReplies : LambdaHandlerCall(event, TRUE, reply)
          ELSE LambdaHandlerCall(event, TRUE, UnreadReply)
    \/ \E reply \in AgentReplies : ProcessResponseCall(reply)

ProxySpec == ProxyInitState /\ [][ProxyNext]_vars

\* ---- the runtime services, src/runtime_agent_main.py, src/agentcore_runtime_service.py
RuntimeServices == {"runtime_agent_main", "agentcore_runtime_service"}

\* sessionId of a request body.
RequestSessions == {"s1", "s2"}

\* self.session_id of the n-th agent constructed: self.user_id, which is drawn
\* at random when the constructor is given no user_id.
AgentSession(n) == "user_" \o ToString(n)

\* A turn in the backend: the address it is stored under (the session_id of the
\* agent that stored it) and, for the record, the sessionId of the request
\* that was being served.
StoredTurn(address, session, q, r) ==
    [address |-> address, session |-> session, user |-> q, assistant |-> r]

\* The turns _load_conversation_history gets for an agent: the last k turns
\* stored under the agent's own session_id.
TurnsOf(agent, kk) ==
    LET Mine(t) == t.address = agent
    IN  LastN(SelectSeq(rt_memory, Mine), kk)

\* Mutant of EnsureAgent: the agent is constructed anew whenever asked.
EnsureAgentAlways(agent, init_ok) ==
    IF init_ok THEN AgentSession(rt_agents_built + 1) ELSE agent

\* `if not agent: await initialize_agent()`: the agent afterwards; None when
\* the constructor raised.
EnsureAgent(agent, init_ok) ==
    IF agent # None THEN agent
    ELSE IF init_ok THEN AgentSession(rt_agents_built + 1) ELSE None

Answer(route, status) == [route |-> route, status |-> status]

\* agentcore_runtime_service constructs its agent in the startup event, and
\* does not start when that fails; runtime_agent_main starts without an agent.
RuntimeInitState ==
    /\ NoAgent
    /\ MemoryInit
    /\ HandleInit
    /\ ApiQuiet
    /\ StreamInit
    /\ ProxyInit
    /\ rt_service \in RuntimeServices
    /\ rt_has_memory \in BOOLEAN
    /\ rt_agent = IF rt_service = "agentcore_runtime_service" THEN AgentSession(1) ELSE None
    /\ rt_agents_built = IF rt_service = "agentcore_runtime_service" THEN 1 ELSE 0
    /\ RuntimeIdle

\* GET /health
HealthCheck(init_ok) ==
    /\ rt_served < MaxServed
    /\ rt_agent' = EnsureAgent(rt_agent, init_ok)
    /\ rt_agents_built' = IF rt_agent' # rt_agent THEN rt_agents_built + 1
                          ELSE rt_agents_built
    /\ rt_last' = Answer("/health", IF rt_agent' # None THEN 200 ELSE 503)
    /\ rt_served' = rt_served + 1
    /\ UNCHANGED <<rt_service, rt_has_memory, rt_memory, rt_inflight, rt_loaded,
                   nonRuntimeVars>>

\* GET /ping
Ping ==
    /\ rt_served < MaxServed
    /\ rt_last' = Answer("/ping", 200)
    /\ rt_served' = rt_served + 1
    /\ UNCHANGED <<rt_service, rt_has_memory, rt_agent, rt_agents_built, rt_memory,
                   rt_inflight, rt_loaded, nonRuntimeVars>>

\* POST /invocations up to the history load of the agent's query.  prompt is
\* None when the body names none.  agentcore_runtime_service looks for its
\* agent before it reads the body, runtime_agent_main after; without an agent
\* the first answers 500 and the second 200 with an apology.
RuntimeInvocationsBegin(session_id, prompt, init_ok, load_ok) ==
    /\ rt_served < MaxServed
    /\ rt_inflight = NoInvocation
    /\ rt_served' = rt_served + 1
    /\ LET eager == rt_service = "agentcore_runtime_service"
           agent == IF eager \/ prompt # None
                    THEN EnsureAgent(rt_agent, init_ok) ELSE rt_agent
           history == IF rt_has_memory /\ load_ok
                      THEN TurnsOf(agent, default_k) ELSE << >>
       IN  /\ rt_agent' = agent
           /\ rt_agents_built' = IF agent # rt_agent THEN rt_agents_built + 1
                                 ELSE rt_agents_built
           /\ IF eager /\ agent = None
              THEN /\ rt_last' = Answer("/invocations", 500)
                   /\ UNCHANGED <<rt_inflight, rt_loaded>>
              ELSE IF prompt = None
              THEN /\ rt_last' = Answer("/invocations", 400)
                   /\ UNCHANGED <<rt_inflight, rt_loaded>>
              ELSE IF agent = None
              THEN /\ rt_last' = Answer("/invocations", 200)
                   /\ UNCHANGED <<rt_inflight, rt_loaded>>
              ELSE /\ rt_inflight' = [session |-> session_id, prompt |-> prompt]
                   /\ rt_loaded' = [session |-> session_id, turns |-> history]
                   /\ rt_last' = NoAnswer
    /\ UNCHANGED <<rt_service, rt_has_memory, rt_memory, nonRuntimeVars>>

\* POST /invocations from the model call on: the turn is stored under the
\* agent's address when the agent has a memory and the write succeeds.
RuntimeInvocationsEnd(answered, store_ok) ==
    /\ rt_inflight # NoInvocation
    /\ rt_memory' =
          IF rt_has_memory /\ answered /\ store_ok
          THEN Append(rt_memory, StoredTurn(rt_agent, rt_inflight.session,
                                            rt_inflight.prompt, "a"))
          ELSE rt_memory
    /\ rt_inflight' = NoInvocation
    /\ rt_last' = Answer("/invocations", 200)
    /\ UNCHANGED <<rt_service, rt_has_memory, rt_agent, rt_agents_built, rt_loaded,
                   rt_served, nonRuntimeVars>>

RuntimeNext ==
    \/ \E init_ok \in BOOLEAN : HealthCheck(init_ok)
    \/ Ping
    \/ \E session_id \in RequestSessions, prompt \in {None, "q1"},
          init_ok, load_ok \in BOOLEAN :
          RuntimeInvocationsBegin(session_id, prompt, init_ok, load_ok)
    \/ \E answered, store_ok \in BOOLEAN : RuntimeInvocationsEnd(answered, store_ok)

RuntimeSpec == RuntimeInitState /\ [][RuntimeNext]_vars

\* ===================================================================== claims
\* C1: one call of _retrieve_with_retry or _converse_with_retry invokes the
\* remote operation at most max_retries + 1 times, whatever the outcomes are,
\* and after its last attempt it has returned or raised: the loop is never in
\* progress with max_retries + 1 attempts behind it.
C1_BoundedAttempts ==
    /\ Invocations(retrieveLog) <= max_retries + 1
    /\ Invocations(converseLog) <= max_retries + 1
    /\ Len(retrieveLog) <= max_retries + 1
    /\ Len(converseLog) <= max_retries + 1
    /\ pc = "retrieve" => Len(retrieveLog) <= max_retries /\ attempt = Len(retrieveLog)
    /\ pc = "converse" => Len(converseLog) <= max_retries /\ attempt = Len(converseLog)

\* Both wrappers used their whole budget in one query: three invocations each.
C1_Witness ==
    /\ pc = "store"
    /\ Invocations(retrieveLog) = max_retries + 1
    /\ Invocations(converseLog) = max_retries + 1

\* An attempt that failed with an error of the given kinds was the last one.
NotRetried(log, kinds) ==
    \A i \in 1..Len(log) : log[i] \in kinds => i = Len(log)

ErrorDetails ==
    {o.code : o \in ErrorOutcomes} \cup {InitErrorOutcome.code, AttributeError}

IsApology(text, head) == Len(text) = 2 /\ text[1] = head /\ text[2] \in ErrorDetails

\* C3: query_with_rag and query never raise to their caller: every call ends by
\* returning a string, and when the retrieval or the model step failed the string
\* is an apology carrying the error detail.
C3_AlwaysReturnsString ==
    /\ pc # "raised"
    /\ pc = "returned" => result.kind = "string"
    /\ pc = "returned" /\ retrieveLog # << >> /\ Last(retrieveLog) # "ok"
          => IsApology(result.text, RagApology)
    /\ pc = "returned" /\ converseLog # << >> /\ Last(converseLog) # "ok"
          => IsApology(result.text, Apology)

LoadOps == {"get_last_k_turns", "get_memory"}
StoreOps == {"create_event", "update_memory"}
Issued(ops) == \E i \in 1..Len(steps) : steps[i].op \in ops

\* A turn was appended to the memory backend by the call.
Stored == \E i \in 1..Len(steps) : steps[i].op \in StoreOps /\ steps[i].ok

\* Some attempt of the call failed with a credential-expiry error and a later
\* attempt of the same wrapper succeeded.
CredentialRetrySucceeded ==
    \/ Contains(retrieveLog, "credential") /\ Last(retrieveLog) = "ok"
    \/ Contains(converseLog, "credential") /\ Last(converseLog) = "ok"

\* C4: a query_with_rag call in which an attempt failed with credential expiry
\* and a later attempt succeeded ends as the run whose first attempt succeeded:
\* with the memory backend the agent had when the call began, the history is
\* loaded for the prompt, the model's text is returned, and the turn (query,
\* text) is handed to the backend.
C4_RetryEquivalent ==
    pc = "returned" /\ InRagPipeline /\ CredentialRetrySucceeded
       /\ converseLog # << >> /\ Last(converseLog) = "ok"
    => /\ result = [kind |-> "string", text |-> response]
       /\ memory_id # None /\ (memory_client # None \/ fallback_at_entry # None)
             => Issued(LoadOps) /\ Issued(StoreOps)

\* Position of a remote operation in the order history, retrieve, model, store.
Rank(op) ==
    CASE op \in LoadOps -> 1
      [] op = "retrieve" -> 2
      [] op = "converse" -> 3
      [] OTHER -> 4

\* C5: with a knowledge base configured, the remote operations of a RAG query
\* are issued in the order load history, retrieve, invoke model, store turn.
C5_HistoryBeforeRetrieve ==
    InRagPipeline =>
        \A i, j \in 1..Len(steps) : i < j => Rank(steps[i].op) <= Rank(steps[j].op)

\* C6: when the model invocation fails (retries exhausted or an error that is
\* not retried) the request does not go on to the store step: no turn, and so no
\* apology text, is handed to the memory backend.
C6_NoStoreAfterModelFailure ==
    converseLog # << >> /\ Last(converseLog) # "ok" /\ pc # "converse"
    => ~Stored

\* The call went past its store step.
StoreStepDone == pc = "returned" /\ response # << >>

\* C7: the outcome of the store step never changes the outcome of the query: the
\* text returned equals the text the model step produced, whether the backend
\* write succeeded or failed, and a failed write never turns the result into an
\* error.
C7_StoreFailureHarmless ==
    StoreStepDone =>
        /\ result = [kind |-> "string", text |-> response]
        /\ ~Contains(result.text, "StoreError")

\* The backend write failed and the caller still got the model's text.
C7_Witness ==
    /\ StoreStepDone
    /\ \E i \in 1..Len(steps) : steps[i].op \in StoreOps /\ ~steps[i].ok
    /\ result.text = <<"r1">>

\* The call went past its history step.
HistoryStepDone == pc \in {"converse", "store"} \/ StoreStepDone

LoadSteps == SelectSeq(steps, LAMBDA st : st.op \in LoadOps)

\* C8: _load_conversation_history never raises, and it returns the empty string
\* when no memory id is configured, when no memory client exists (no backend
\* read is issued), when every backend read it issued failed, and when the
\* backend holds no turns; the query then goes on to the model with a prompt
\* that has no history block.
C8_LoadHistoryNeverRaises ==
    /\ ~Contains(result.text, "HistoryError")
    /\ HistoryStepDone =>
          /\ memory_id = None => LoadSteps = << >>
          /\ LoadSteps = << >> => memory_context = << >>
          /\ LoadSteps # << >> /\ ~Last(LoadSteps).ok => memory_context = << >>
          /\ ~Stored /\ events = << >> /\ memoryContents = << >> => memory_context = << >>
          /\ memory_context = << >> => ~Contains(final_prompt, PreviousLabel)

\* The backend holds a turn but the read failed: the query went on to the model
\* step without history.
C8_Witness ==
    /\ pc = "converse"
    /\ events # << >>
    /\ LoadSteps = <<Step("get_last_k_turns", FALSE)>>
    /\ memory_context = << >>
    /\ final_prompt # << >>

ModelTexts == {ExtractResponseText(r) : r \in ConverseResponses}

\* C9: without a knowledge-base id the retrieve operation is never invoked, and
\* the request still runs load history, model, store turn and ends with the
\* model's answer: it does not raise, and when the model call succeeds the
\* result is the model's text.
C9_NoKnowledgeBase ==
    knowledge_base_id = None =>
        /\ ~Issued({"retrieve"})
        /\ pc # "raised"
        /\ pc = "returned" =>
              /\ converseLog # << >>
              /\ result = [kind |-> "string", text |-> response]
              /\ Last(converseLog) = "ok" => result.text \in ModelTexts
              /\ memory_id # None /\ (memory_client # None \/ fallback_at_entry # None)
                    => Issued(LoadOps) /\ Issued(StoreOps)

\* Index of the first atom of `text` that is in `atoms` (0 if there is none).
IndexOf(text, atoms) ==
    IF \E i \in 1..Len(text) : text[i] \in atoms
    THEN CHOOSE i \in 1..Len(text) :
            text[i] \in atoms /\ \A j \in 1..(i - 1) : text[j] \notin atoms
    ELSE 0

\* The part of the prompt that starts at its template.
TemplatePart(prompt) ==
    LET start == IndexOf(prompt, {ContextHead, NoInfoHead})
    IN  IF start = 0 THEN << >> ELSE SubSeq(prompt, start, Len(prompt))

\* C10: the prompt query_with_rag sends to the model is fixed by (contexts,
\* history, query).  With at least one context it is the 'answer using context'
\* template: every context text, in retrieval order, with the separator between
\* consecutive ones, then the literal query, and no 'no information found'
\* text.  With no context it is the 'no information found' template around the
\* literal query, with no separator.
C10_PromptTemplates ==
    InRagPipeline /\ final_prompt # << >> =>
        LET body == TemplatePart(final_prompt)
            n == Len(contexts)
        IN  IF n > 0
            THEN /\ Len(body) = 2 * n + 3
                 /\ body[1] = ContextHead
                 /\ \A i \in 1..n : <<body[2 * i]>> = contexts[i]
                 /\ \A i \in 1..(n - 1) : body[2 * i + 1] = Separator
                 /\ SubSeq(body, 2 * n + 1, 2 * n + 3)
                       = <<UserQueryLabel, query[1], ContextTail>>
                 /\ ~Contains(final_prompt, NoInfoHead)
                 /\ ~Contains(final_prompt, NoInfoTail)
            ELSE /\ body = <<NoInfoHead, query[1], NoInfoTail>>
                 /\ ~Contains(final_prompt, Separator)
                 /\ ~Contains(final_prompt, ContextHead)

\* Two contexts were retrieved (around a result without text) and the prompt,
\* with a history block ahead of it, is on its way to the model.
C10_Witness ==
    /\ pc = "converse"
    /\ InRagPipeline
    /\ contexts = << <<"B">>, <<"A">> >>
    /\ memory_context # << >>
    /\ final_prompt # << >>

\* C11: whenever the history text loaded for a call is non-empty, the prompt
\* handed to the model begins with the 'Previous conversation context' label
\* followed by exactly that text, and the query comes after it, whether contexts
\* were found, none were found, or no knowledge base is configured; when the
\* history text is empty the prompt has no such block.
C11_HistoryPrefix ==
    final_prompt # << >> =>
        IF memory_context # << >>
        THEN LET n == Len(memory_context)
             IN  /\ Len(final_prompt) > n + 1
                 /\ final_prompt[1] = PreviousLabel
                 /\ SubSeq(final_prompt, 2, n + 1) = memory_context
                 /\ \E i \in (n + 2)..Len(final_prompt) : final_prompt[i] = query[1]
        ELSE ~Contains(final_prompt, PreviousLabel)

\* query_with_rag without a knowledge base found a stored turn: the prompt on
\* its way to the model carries the history ahead of the query.
C11_Witness ==
    /\ pc = "converse"
    /\ entry = "query_with_rag"
    /\ knowledge_base_id = None
    /\ memory_context # << >>
    /\ final_prompt # << >>

PrimaryOps == {"get_last_k_turns", "create_event"}
FallbackOps == {"get_memory", "update_memory"}

\* C12: the agent never holds both the primary MemoryClient and the fallback
\* client, at construction or after any refresh_clients, so no call issues an
\* operation on the primary backend and then one on the fallback backend.
C12_AtMostOneMemoryClient ==
    /\ ~(memory_client # None /\ bedrock_agentcore # None)
    /\ memory_id = None => memory_client = None /\ bedrock_agentcore = None
    /\ ~(Issued(PrimaryOps) /\ Issued(FallbackOps))

\* A call on an agent with the primary client went through refresh_clients, had
\* its primary read fail, and went on without touching the fallback backend.
C12_Witness ==
    /\ memory_client # None
    /\ Contains(retrieveLog, "credential")
    /\ pc = "converse"
    /\ LoadSteps = <<Step("get_last_k_turns", FALSE)>>

\* The two lines a stored turn contributes to the history text.
TurnLines(t) == << <<"User", ": ">> \o t.user, <<"Assistant", ": ">> \o t.assistant >>

\* The history text of the last min(kk, n) of the n turns.
ExpectedHistory(turns, kk) ==
    LET recent == LastN(turns, kk)
    IN  Join(Flatten([i \in 1..Len(recent) |-> TurnLines(recent[i])]), <<NL>>)

\* A text with its "Role: " labels split as Title(role), ": ".
Canon(text) ==
    Flatten([i \in 1..Len(text) |->
                CASE text[i] = "User: " -> <<"User", ": ">>
                  [] text[i] = "Assistant: " -> <<"Assistant", ": ">>
                  [] OTHER -> <<text[i]>>])

SentinelCount == Len(SelectSeq(events, LAMBDA e : e = ClearedEvent))

BackendConfigured ==
    memory_id # None /\ (memory_client # None \/ bedrock_agentcore # None)

\* C13: the text a successful _load_conversation_history(k) returns is made of
\* exactly the last min(k, n) of the n turns stored for the session, each as its
\* user line followed by its assistant line, oldest first, joined by newlines,
\* with the primary and with the fallback backend.
C13_LastKTurns ==
    lastOp = [op |-> "load", ok |-> TRUE] /\ SentinelCount = 0 =>
        Canon(memory_context) = ExpectedHistory(turnsStored, load_k)

\* The turns the backend holds, in order, are the turns that were stored.
TurnsPreserved ==
    IF memory_client # None
    THEN SelectSeq(events, LAMBDA e : e # ClearedEvent)
            = [i \in 1..Len(turnsStored) |->
                  << [role |-> "user", text |-> turnsStored[i].user],
                     [role |-> "assistant", text |-> turnsStored[i].assistant] >>]
    ELSE Canon(Join([i \in 1..Len(memoryContents) |-> memoryContents[i].content], <<NL>>))
            = ExpectedHistory(turnsStored, Len(turnsStored))

\* C14: with a memory backend configured, every clear_memory call appends one
\* 'Memory cleared' event to the session's memory, and no stored turn is removed
\* or changed by it: the turns stored before are still what a later history load
\* reads.
C14_ClearAppendsSentinel ==
    BackendConfigured =>
        /\ SentinelCount = clearsDone
        /\ TurnsPreserved
        /\ lastOp = [op |-> "load", ok |-> TRUE] /\ memory_client # None =>
              memory_context = FormatTurns(LastN(events, load_k))

\* The cached client of a service.
Cached(service) ==
    IF service = "bedrock-runtime" THEN bedrock_runtime ELSE bedrock_agent_runtime

\* C15: between two refresh_clients calls each client property constructs at
\* most one client and every access that returns gives that same handle;
\* refresh_clients leaves both services without a cached handle, so the next
\* access constructs a new one, never a handle that a refresh dropped.
C15_ClientsMemoized ==
    \A s \in Services :
        /\ built[s] <= 1
        /\ \A i \in 1..Len(yielded[s]) :
              yielded[s][i] # "raised" => yielded[s][i] = Cached(s)
        /\ Cached(s) # None <=> built[s] = 1
        /\ Cached(s) \notin retired

\* After a refresh dropped both clients, the inference client property was
\* accessed three times and returned one new handle each time.
C15_Witness ==
    /\ Cardinality(retired) = 2
    /\ Len(yielded["bedrock-runtime"]) = 3
    /\ \A i \in 1..3 : yielded["bedrock-runtime"][i] = bedrock_runtime
    /\ bedrock_runtime \notin retired
    /\ bedrock_agent_runtime = None

IsPrefix(a, b) == Len(a) <= Len(b) /\ SubSeq(b, 1, Len(a)) = a

\* C16: whatever request is handled (connect, /web/query, /query, delete), the
\* chat_history of every session that stays in agent_sessions afterwards has its
\* earlier value as a prefix: entries are only added at the end, none is edited
\* or removed except by deleting the whole session.
C16_ChatHistoryAppendOnly ==
    [][\A sid \in DOMAIN agent_sessions \cap DOMAIN agent_sessions' :
          IsPrefix(agent_sessions[sid].chat_history,
                   agent_sessions'[sid].chat_history)]_vars

\* A session holds an exchange added by /web/query followed by one added by
\* /query, after another session was deleted.
C16_Witness ==
    /\ sessions_created = 2
    /\ \E sid \in DOMAIN agent_sessions :
          /\ DOMAIN agent_sessions = {sid}
          /\ Len(agent_sessions[sid].chat_history) = 2
          /\ agent_sessions[sid].chat_history[1].response = WebResponseText("error")
          /\ agent_sessions[sid].chat_history[2].response = <<"a1">>

EventTypes == [i \in 1..Len(stream_events) |-> stream_events[i].type]

\* C17: a response stream has at most one chunk event and at most one terminal
\* event (end or error), the terminal event is its last event, and a chunk is
\* followed by end only; a stream read to its end has exactly one terminal
\* event: chunk then end, end alone, or error alone.
C17_StreamShape ==
    /\ EventTypes \in { << >>, <<"chunk">>, <<"chunk", "end">>, <<"end">>, <<"error">> }
    /\ EventTypes = <<"chunk">> => inv_pc \in {"at_chunk", "closed"}
    /\ inv_pc = "exhausted" =>
          EventTypes \in { <<"chunk", "end">>, <<"end">>, <<"error">> }
    /\ inv_pc \in {"at_end", "at_error"} =>
          EventTypes \in { <<"chunk", "end">>, <<"end">>, <<"error">> }

\* A stream that carried the model's text was read to its end.
C17_Witness ==
    /\ inv_pc = "exhausted"
    /\ EventTypes = <<"chunk", "end">>
    /\ stream_events[1].content = <<"t1", "\\n", "t2">>

\* C18: when the knowledge-base retrieval times out the model is never invoked
\* and the stream is the single error event with the 'timed out while searching'
\* message; when the model call times out the stream is the single error event
\* with the 'timed out while generating' message; in neither case is there a
\* chunk.
C18_TimeoutIsError ==
    /\ kb_outcome = "timeout" =>
          /\ llm_invocations = 0
          /\ llm_outcome = "none"
          /\ stream_events = <<ErrorEvent(<<KbTimeoutMessage>>)>>
          /\ inv_pc \in {"at_error", "exhausted", "closed"}
    /\ llm_outcome = "timeout" =>
          /\ stream_events = <<ErrorEvent(<<LlmTimeoutMessage>>)>>
          /\ inv_pc \in {"at_error", "exhausted", "closed"}

\* The retrieval timed out and the error stream was read to its end.
C18_Witness ==
    /\ kb_outcome = "timeout"
    /\ inv_pc = "exhausted"
    /\ Len(stream_events) = 1

\* C19: every response lambda_handler returns, whatever the event (preflight,
\* success, 400, 500), has the three Access-Control-Allow-* headers, each with a
\* value.
C19_CorsHeaders ==
    proxy_response.kind = "returned" =>
        \A h \in RequiredCors :
            h \in DOMAIN proxy_response.headers /\ proxy_response.headers[h] # None

\* The invocation raised and the 500 response was returned.
C19_Witness ==
    /\ proxy_response.kind = "returned"
    /\ proxy_response.statusCode = 500
    /\ invoke_outcome = "raised"

\* The request has no body, a body that is not JSON, or no / an empty prompt.
InvalidRequest(event) ==
    \/ event.form \in {"absent", "null", "invalid_json"}
    \/ event.form = "object" /\ event.prompt \in {None, ""}

ValidRequest(event) == event.form = "object" /\ event.prompt \notin {None, ""}

\* C20: lambda_handler answers an OPTIONS request with 200 and an empty body; a
\* request whose body is missing, is not JSON or has no or an empty prompt with
\* 400; a valid request with 200 and the request's sessionId when the invocation
\* gave a text, and with 500 'Internal server error' when the invocation raised.
\* invoke_agent_runtime is called once for a valid request and not at all
\* otherwise.
C20_ProxyStatusCodes ==
    proxy_response.kind # "none" =>
        IF proxy_event.httpMethod = "OPTIONS"
        THEN /\ proxy_response.kind = "returned"
             /\ proxy_response.statusCode = 200
             /\ proxy_response.body = << >>
             /\ agent_invocations = 0
        ELSE IF InvalidRequest(proxy_event)
        THEN /\ proxy_response.kind = "returned"
             /\ proxy_response.statusCode = 400
             /\ agent_invocations = 0
        ELSE IF ValidRequest(proxy_event)
        THEN /\ proxy_response.kind = "returned"
             /\ agent_invocations = 1
             /\ invoke_outcome = "answered" =>
                   /\ proxy_response.statusCode = 200
                   /\ proxy_event.sessionId # None =>
                         proxy_response.sessionId = proxy_event.sessionId
             /\ invoke_outcome = "raised" =>
                   /\ proxy_response.statusCode = 500
                   /\ proxy_response.body[1] = "Internal server error: "
        ELSE TRUE


\* C21: process_agentcore_response gives its caller a string, never None, and
\* never raises, whatever the content type of the response (text/event-stream,
\* application/json, another one) and whatever its 'response' body is, a
\* missing or None body included.
C21_ProcessReturnsString ==
    processed.kind # "none" => processed.kind = "str"


\* A step that serves a probe.
ProbeStep ==
    /\ rt_served' = rt_served + 1
    /\ rt_last'.route \in {"/health", "/ping"}

\* C22: handling /health or /ping, in any state of the service, never creates,
\* replaces or otherwise changes the agent instance, nor any session or memory
\* state.
C22_ProbesReadOnly ==
    [][ProbeStep => UNCHANGED <<rt_agent, rt_agents_built, rt_memory, rt_inflight,
                                rt_loaded>>]_vars

\* C22 as amended: /ping changes nothing; /health changes no session or memory
\* state and never replaces or changes an agent that exists: when there is
\* none yet it tries to construct one, and that is all it changes.
C22_ProbesKeepAgent ==
    [][ProbeStep =>
          /\ UNCHANGED <<rt_memory, rt_inflight, rt_loaded>>
          /\ (rt_agent # None => UNCHANGED <<rt_agent, rt_agents_built>>)
          /\ (rt_last'.route = "/ping" => UNCHANGED <<rt_agent, rt_agents_built>>)
          /\ rt_agents_built' \in {rt_agents_built, rt_agents_built + 1}
          /\ rt_agents_built' <= 1]_vars

\* A /health probe answered while a request is being processed and turns are
\* stored, with an agent that exists.
C22_Witness ==
    /\ rt_last.route = "/health"
    /\ rt_agent # None
    /\ rt_inflight # NoInvocation
    /\ rt_memory # << >>

\* C25: a turn stored while serving an /invocations request with sessionId X
\* is never part of the history loaded for a request with another sessionId.
C25_MemoryIsolatedPerSession ==
    \A i \in 1..Len(rt_loaded.turns) : rt_loaded.turns[i].session = rt_loaded.session

\* Whether a can be had from b by leaving elements out, the order kept.
RECURSIVE IsSubsequence(_, _)
IsSubsequence(a, b) ==
    IF a = << >> THEN TRUE
    ELSE IF b = << >> THEN FALSE
    ELSE IF Head(a) = Head(b) THEN IsSubsequence(Tail(a), Tail(b))
    ELSE IsSubsequence(a, Tail(b))

\* C23: after any sequence of add_to_history calls the agent has a
\* conversation_history of at most 20 messages, which are messages that were
\* added, with their role and text, in the order they were added in; as long
\* as fewer than 20 were added it holds them all.
C23_HistoryBounded ==
    history_adds # << >> =>
        /\ history_error = None
        /\ conversation_history.defined
        /\ Len(conversation_history.messages) <= history_limit
        /\ IsSubsequence(conversation_history.messages, history_adds)
        /\ Len(history_adds) <= history_limit =>
              conversation_history.messages = history_adds

\* C24: requests on one session are not serialized, so a request may append
\* before an older request on the same session does; even so, as long as the
\* session exists its chat_history holds the exchange of every request that got
\* to its append, in the order they got there: no append is lost.
C24_NoAppendLost ==
    /\ DOMAIN completed = DOMAIN agent_sessions
    /\ \A sid \in DOMAIN agent_sessions :
          agent_sessions[sid].chat_history = completed[sid]

\* Two requests on one session were waiting at the same time, the younger one
\* appended first, and both exchanges are in the history, in that order.
C24_Witness ==
    /\ in_flight = << >>
    /\ \E sid \in overtaken \cap DOMAIN agent_sessions :
          /\ Len(agent_sessions[sid].chat_history) = 2
          /\ agent_sessions[sid].chat_history[1].response = <<"a1">>
          /\ agent_sessions[sid].chat_history[2].response = WebResponseText("store")

\* A step that serves DELETE /session/{session_id}.
CleanupStep ==
    /\ requests_begun' = requests_begun + 1
    /\ last_request'.route = "/session"

\* The session ids handed out so far that are in agent_sessions no more.
Deleted == {SessionId(n) : n \in 1..sessions_created} \ DOMAIN agent_sessions

\* C26: cleanup_session removes the session from agent_sessions if and only if
\* the requester is authenticated, the session exists and the requester is the
\* user who created it (the answer is then 200); in every other case (401, 403,
\* 404) agent_sessions is unchanged.  A session id that was deleted never comes
\* back into agent_sessions, whatever happens later, a query on it that was
\* waiting when it was deleted included.
C26_CleanupOwnSessionOnly ==
    [][/\ CleanupStep =>
             LET user == last_request'.user
                 sid == last_request'.session_id
                 allowed == /\ user # None
                            /\ sid \in DOMAIN agent_sessions
                            /\ agent_sessions[sid].user_id = user
             IN  IF allowed
                 THEN /\ agent_sessions' =
                            [s \in DOMAIN agent_sessions \ {sid} |-> agent_sessions[s]]
                      /\ last_response'.outcome = "200"
                 ELSE /\ agent_sessions' = agent_sessions
                      /\ last_response'.outcome \in {"401", "403", "404"}
       /\ Deleted \subseteq Deleted']_vars

\* A query that was waiting when its session was deleted has finished, and the
\* session is still gone.
C26_Witness ==
    /\ Deleted # {}
    /\ in_flight = << >>
    /\ last_response = Answered("/query", "200")
    /\ last_request.route = "/session"
    /\ agent_sessions = [sid \in {} |-> None]

\* C27: only the user who created a session reads and appends to it: a
\* /web/query or /query request of another authenticated user on that session
\* id is rejected, so it never waits for tool calls on that session.
C27_SessionOwnerOnly ==
    \A i \in 1..Len(in_flight) :
        in_flight[i].session_id \in DOMAIN agent_sessions =>
            agent_sessions[in_flight[i].session_id].user_id = in_flight[i].user

\* A step in which the i-th waiting request finishes.
Finishes(i) == i \in 1..Len(in_flight) /\ in_flight' = Remove(in_flight, i)

\* The chat_history of session sid in the sessions given.
History(sessions, sid) == sessions[sid].chat_history

\* A step that takes in a query request.
QueryStep ==
    /\ requests_begun' = requests_begun + 1
    /\ last_request'.route \in {"/web/query", "/query"}

\* C30: on a session that exists, /web/query adds exactly one exchange to the
\* session's chat_history, also when processing fails (the exchange then holds
\* the apology); /query adds exactly one exchange when it succeeds and none
\* when processing fails, answering 500.  A query request on an unknown session
\* id adds nothing, creates no session and never gets to the agent's tools.
C30_ExchangesAppended ==
    [][/\ \A i \in 1..Len(in_flight) :
             (Finishes(i) /\ in_flight[i].session_id \in DOMAIN agent_sessions) =>
                LET req == in_flight[i]
                    sid == req.session_id
                    before == History(agent_sessions, sid)
                    after == History(agent_sessions', sid)
                    failed == req.route = "/query" /\ last_response'.outcome = "500"
                IN  /\ DOMAIN agent_sessions' = DOMAIN agent_sessions
                    /\ \A other \in DOMAIN agent_sessions \ {sid} :
                          agent_sessions'[other] = agent_sessions[other]
                    /\ IF failed
                       THEN after = before
                       ELSE /\ Len(after) = Len(before) + 1
                            /\ SubSeq(after, 1, Len(before)) = before
                            /\ Last(after).query = req.query
                            /\ Last(after).response \in
                                  IF req.route = "/query" THEN {<<"a1">>}
                                  ELSE {WebResponseText(o) : o \in WebOutcomes}
                            /\ Last(after).formatted_response =
                                  FormatResponseHtml(Last(after).response)
       /\ (QueryStep /\ last_request'.user # None
             /\ last_request'.session_id \notin DOMAIN agent_sessions) =>
             /\ agent_sessions' = agent_sessions
             /\ sessions_created' = sessions_created
             /\ in_flight' = in_flight
             /\ last_response'.outcome \in {"error.html", "404"}]_vars

\* A failed /web/query left its apology in the history, and a query on an
\* unknown session id was turned away.
C30_Witness ==
    /\ in_flight = << >>
    /\ last_request.session_id = "unknown"
    /\ last_response.outcome = "404"
    /\ \E sid \in DOMAIN agent_sessions :
          /\ Len(agent_sessions[sid].chat_history) = 1
          /\ agent_sessions[sid].chat_history[1].response = WebResponseText("error")

\* The attempt log of the retry wrapper around the named operation.
LoopLog(op) == IF op = "retrieve" THEN retrieveLog ELSE converseLog

\* The cached client the named operation is invoked on, and the other one.
UsedClient(op) == IF op = "retrieve" THEN bedrock_agent_runtime ELSE bedrock_runtime
OtherClient(op) == IF op = "retrieve" THEN bedrock_runtime ELSE bedrock_agent_runtime

\* Credential-expiry failures of a wrapper that another attempt followed; the
\* last attempt logged is followed by one while the loop is still running.
FollowedExpiries(log, running) ==
    Cardinality({i \in 1..Len(log) :
                    log[i] = "credential" /\ (i < Len(log) \/ running)})

\* A step that is one attempt of the wrapper around the named operation.
AttemptStep(op) == Len(LoopLog(op)') = Len(LoopLog(op)) + 1

\* The attempt of this step failed on expired credentials and the loop goes on.
ExpiryRetried(op) == Last(LoopLog(op)') = "credential" /\ pc' = pc

\* C28 as stated: refresh_clients runs exactly after a credential-expiry failure
\* that another attempt follows, at most max_retries times in a wrapper, and an
\* attempt that does not refresh leaves every cached client as it was.
C28_RefreshOnlyOnExpiryStrict ==
    [][\A op \in {"retrieve", "converse"} :
          AttemptStep(op) =>
             /\ IF ExpiryRetried(op)
                THEN /\ refreshes' = refreshes + 1
                     /\ bedrock_runtime' = None
                     /\ bedrock_agent_runtime' = None
                ELSE UNCHANGED <<refreshes, bedrock_runtime, bedrock_agent_runtime,
                                 bedrock_agentcore>>
             /\ FollowedExpiries(LoopLog(op)', pc' = pc) <= max_retries]_vars

\* C28 (amended): refresh_clients runs exactly after a credential-expiry failure
\* that another attempt follows, so the refreshes of a call number those
\* failures, at most max_retries in a wrapper and none after its last attempt;
\* an attempt that does not refresh discards no cached client: the other
\* client and the fallback memory client stay, and the client it uses stays
\* once cached, being built on first use.
C28_RefreshOnlyOnExpiry ==
    [][\A op \in {"retrieve", "converse"} :
          AttemptStep(op) =>
             /\ IF ExpiryRetried(op)
                THEN /\ refreshes' = refreshes + 1
                     /\ bedrock_runtime' = None
                     /\ bedrock_agent_runtime' = None
                     /\ Len(LoopLog(op)) < max_retries
                ELSE /\ UNCHANGED <<refreshes, bedrock_agentcore>>
                     /\ OtherClient(op)' = OtherClient(op)
                     /\ UsedClient(op) # None => UsedClient(op)' = UsedClient(op)
                     /\ UsedClient(op)' # UsedClient(op) =>
                           Last(LoopLog(op)') # "init_error"
             /\ FollowedExpiries(LoopLog(op)', pc' = pc) <= max_retries
             /\ refreshes' = FollowedExpiries(retrieveLog', pc' = "retrieve")
                               + FollowedExpiries(converseLog', pc' = "converse")]_vars

\* Both wrappers of one call have refreshed, the retrieval one max_retries times.
C28_Witness ==
    /\ pc = "converse"
    /\ FollowedExpiries(retrieveLog, FALSE) = max_retries
    /\ FollowedExpiries(converseLog, TRUE) >= 1
    /\ refreshes = max_retries + FollowedExpiries(converseLog, TRUE)
    /\ "exception" \in {converseLog[i] : i \in 1..Len(converseLog)}

\* Backend writes among the remote operations of a call.
StoreSteps(log) == SelectSeq(log, LAMBDA st : st.op \in StoreOps)

\* The turn a MemoryClient write adds, and the contents a boto3 write adds.
TurnEvent(user_text, assistant_text) ==
    << [role |-> "user", text |-> user_text],
       [role |-> "assistant", text |-> assistant_text] >>
TurnContents(user_text, assistant_text) ==
    << [content |-> <<"User: ">> \o user_text],
       [content |-> <<"Assistant: ">> \o assistant_text] >>

\* A step that writes to the memory backend or tries to.
StoreAttempted ==
    \/ events' # events
    \/ memoryContents' # memoryContents
    \/ Len(StoreSteps(steps')) > Len(StoreSteps(steps))

\* C29: a query or query_with_rag call tries to store at most once, and only
\* after its model step: the backend is written by the one step that follows
\* query_without_memory and returns to the caller, each backend write is issued
\* at most once in it (the boto3 write only when the MemoryClient write was not
\* made or failed), and what it adds is one turn, the query the caller passed
\* with exactly the text the caller gets.
C29_OneStoreOfQueryAndAnswer ==
    [][StoreAttempted =>
          /\ pc = "store" /\ pc' = "returned"
          /\ response # << >>
          /\ StoreSteps(steps) = << >>
          /\ \A op \in StoreOps :
                Len(SelectSeq(steps', LAMBDA st : st.op = op)) <= 1
          /\ Len(SelectSeq(steps', LAMBDA st : st.op \in StoreOps /\ st.ok)) <= 1
          /\ result'.kind = "string"
          /\ \/ /\ events' = Append(events, TurnEvent(query, result'.text))
                /\ memoryContents' = memoryContents
             \/ /\ memoryContents' = memoryContents \o TurnContents(query, result'.text)
                /\ events' = events
             \/ /\ UNCHANGED <<events, memoryContents>>
                /\ \A i \in 1..Len(steps') : steps'[i].op \in StoreOps => ~steps'[i].ok
         ]_vars

\* A call whose prompt carried more than the query has stored the query with the
\* text it returns, in its one backend write.
C29_Witness ==
    /\ pc = "returned"
    /\ final_prompt # query
    /\ Len(StoreSteps(steps)) = 1
    /\ Stored
    /\ events # << >>
    /\ Last(events) = TurnEvent(query, result.text)

====
